---- MODULE Spec2Model ----
(***************************************************************************)
(* Email-Manager backend: the privacy-aware classification policy          *)
(* (services/ai_service.py, services/privacy_service.py) and the sync      *)
(* orchestration (routers/emails.py) over the SQLite store (database.py)   *)
(* and the IMAP gateway (services/imap_service.py).                        *)
(*                                                                         *)
(* A message text is abstracted to the set of vocabulary keywords that     *)
(* occur in the lower-cased "subject body" string, plus the body length.   *)
(***************************************************************************)
EXTENDS Integers, Sequences, FiniteSets, TLC

(***************************************************************************)
(* Vocabulary: two or three representatives of every keyword table, in     *)
(* the order of the table.  The tables pair a keyword with a label; the    *)
(* pairs are the keyword lists and the function Label.                     *)
(***************************************************************************)
\* privacy_service.py EXTREME_KEYWORDS (in list order)
EXTREME_KEYWORDS == <<"password", "token">>
\* privacy_service.py SENSITIVE_PATTERNS: a digit group matching a pattern
SENSITIVE_PATTERNS == <<"cardnumber", "phonenumber">>
\* privacy_service.py HIGH_KEYWORDS
HIGH_KEYWORDS == <<"transcript", "grade">>
\* privacy_service.py MEDIUM_KEYWORDS: "phone" and "telephone" (电话) carry
\* the same label
MEDIUM_KEYWORDS == <<"phone", "telephone", "address">>

\* the label paired with a keyword or pattern
Label(keyword) ==
    CASE keyword = "password" -> "label password"
      [] keyword = "token" -> "label token"
      [] keyword = "cardnumber" -> "label credit card number"
      [] keyword = "phonenumber" -> "label phone number"
      [] keyword = "transcript" -> "label transcript"
      [] keyword = "grade" -> "label grade"
      [] keyword = "phone" -> "label phone number"
      [] keyword = "telephone" -> "label phone number"
      [] OTHER -> "label address"

Vocabulary == {"password", "cardnumber", "grade", "phone", "exam", "due", "register"}

\* body lengths around the two summary thresholds (100 and 500)
BodyLens == {0, 100, 101, 500, 501}

Messages == [kw : SUBSET Vocabulary, len : BodyLens]

PrivacyLevel == {"normal", "high", "extreme"}
AIMode == {"local", "api", "hybrid"}
Priority == {"urgent", "important", "normal", "archive"}

\* the value None of the Python code
None == "None"

Range(s) == {s[k] : k \in DOMAIN s}

\* first element of the list l that occurs in the content kw, or None
RECURSIVE FirstMatch(_, _)
FirstMatch(l, kw) ==
    IF l = <<>> THEN None
    ELSE IF Head(l) \in kw THEN Head(l)
    ELSE FirstMatch(Tail(l), kw)

RECURSIVE MatchedMedium_everyKeyword(_, _, _)
MatchedMedium_everyKeyword(l, kw, matched_medium) ==
    IF l = <<>> THEN matched_medium
    ELSE IF Head(l) \in kw
    THEN MatchedMedium_everyKeyword(Tail(l), kw, Append(matched_medium, Label(Head(l))))
    ELSE MatchedMedium_everyKeyword(Tail(l), kw, matched_medium)

\* the medium labels collected by the loop of scan, in list order: a label
\* is appended when its keyword matches and the label is not yet in the list
RECURSIVE MatchedMedium(_, _, _)
MatchedMedium(l, kw, matched_medium) ==
    IF l = <<>> THEN matched_medium
    ELSE IF Head(l) \in kw /\ Label(Head(l)) \notin Range(matched_medium)
    THEN MatchedMedium(Tail(l), kw, Append(matched_medium, Label(Head(l))))
    ELSE MatchedMedium(Tail(l), kw, matched_medium)

\* PrivacyService.scan
scan(kw) ==
    IF FirstMatch(EXTREME_KEYWORDS, kw) # None
    THEN [level |-> "extreme",
          matched_keywords |-> <<Label(FirstMatch(EXTREME_KEYWORDS, kw))>>]
    ELSE IF FirstMatch(SENSITIVE_PATTERNS, kw) # None
    THEN [level |-> "extreme",
          matched_keywords |-> <<Label(FirstMatch(SENSITIVE_PATTERNS, kw))>>]
    ELSE IF FirstMatch(HIGH_KEYWORDS, kw) # None
    THEN [level |-> "high",
          matched_keywords |-> <<Label(FirstMatch(HIGH_KEYWORDS, kw))>>]
    ELSE [level |-> "normal",
          matched_keywords |-> MatchedMedium(MEDIUM_KEYWORDS, kw, <<>>)]

should_use_local_highOnly(scan_result) == scan_result.level = "extreme"

\* PrivacyService.should_use_local
should_use_local(scan_result) == scan_result.level \in {"extreme", "high"}

should_disable_ai_never(scan_result) == FALSE

\* PrivacyService.should_disable_ai
should_disable_ai(scan_result) == scan_result.level = "extreme"

(***************************************************************************)
(* Model endpoints.  env says whether the local (Ollama) and the cloud     *)
(* (OpenAI-compatible) endpoint answer, and which priority word the        *)
(* answer carries.  A sub-task returns its value and the endpoint calls    *)
(* it attempted.                                                           *)
(***************************************************************************)
Envs == [local_up : BOOLEAN, api_up : BOOLEAN, reply : Priority]

\* AIService._rule_based_process, lines 178-200: the priority rules
rule_based_priority(kw) ==
    IF kw \cap {"exam", "due"} # {} THEN "urgent"
    ELSE IF kw \cap {"grade", "register"} # {} THEN "important"
    ELSE "normal"

\* AIService._classify_rule_based
classify_rule_based(kw) ==
    IF kw \cap {"exam"} # {} THEN "urgent"
    ELSE IF kw \cap {"grade"} # {} THEN "important"
    ELSE "normal"

\* AIService._classify_local
classify_local(kw, env) ==
    [val |-> IF env.local_up THEN env.reply ELSE classify_rule_based(kw),
     calls |-> {"ollama.classify"}]

\* AIService._classify_api
classify_api(kw, env) ==
    [val |-> IF env.api_up THEN env.reply ELSE classify_rule_based(kw),
     calls |-> {"openai.classify"}]

\* AIService._extract_tags_local: only the endpoint call is modelled
extract_tags_local(kw, env) == [calls |-> {"ollama.tags"}]

\* AIService._extract_tags_api: only the endpoint call is modelled
extract_tags_api(kw, env) == [calls |-> {"openai.tags"}]

\* AIService._summarize_local
summarize_local(env) ==
    [val |-> IF env.local_up THEN "local_summary" ELSE "",
     calls |-> {"ollama.summary"}]

\* AIService._summarize_api
summarize_api(env) ==
    [val |-> IF env.api_up THEN "api_summary" ELSE "",
     calls |-> {"openai.summary"}]

NoCall == [val |-> "", calls |-> {}]

\* the summary written by _rule_based_process
AI_DISABLED == "(privacy mode, AI summary disabled)"

\* the ai_model tags written by the four processors
TagRuleBased == "rule_based"
TagLocal == "local (local_model)"
TagApi == "API (api_model)"
TagHybridApi == "hybrid (hybrid_api_model)"
TagHybridLocal == "hybrid (hybrid_local_model)"

\* AIService._rule_based_process
rule_based_process(id, msg, privacy_result) ==
    [email |-> [id |-> id, priority |-> rule_based_priority(msg.kw),
                summary |-> AI_DISABLED, ai_model |-> TagRuleBased,
                is_read |-> FALSE, is_archived |-> FALSE,
                ai_processed |-> TRUE, ai_mode |-> None,
                privacy_level |-> privacy_result.level],
     calls |-> {}]

process_local_cloudSummary(id, msg, privacy_result, env) ==
    LET p == classify_local(msg.kw, env)
        t == extract_tags_local(msg.kw, env)
        s == IF msg.len > 100 THEN summarize_api(env) ELSE NoCall
    IN [email |-> [id |-> id, priority |-> p.val,
                   summary |-> s.val, ai_model |-> TagLocal,
                   is_read |-> FALSE, is_archived |-> FALSE,
                   ai_processed |-> TRUE, ai_mode |-> "local",
                   privacy_level |-> privacy_result.level],
        calls |-> p.calls \cup t.calls \cup s.calls]

\* AIService._process_local
process_local(id, msg, privacy_result, env) ==
    LET p == classify_local(msg.kw, env)
        t == extract_tags_local(msg.kw, env)
        s == IF msg.len > 100 THEN summarize_local(env) ELSE NoCall
    IN [email |-> [id |-> id, priority |-> p.val,
                   summary |-> s.val, ai_model |-> TagLocal,
                   is_read |-> FALSE, is_archived |-> FALSE,
                   ai_processed |-> TRUE, ai_mode |-> "local",
                   privacy_level |-> privacy_result.level],
        calls |-> p.calls \cup t.calls \cup s.calls]

\* AIService._process_api, lines 302-346: the cloud path
process_api_cloud(id, msg, privacy_result, env) ==
    LET p == classify_api(msg.kw, env)
        t == extract_tags_api(msg.kw, env)
        s == IF msg.len > 100 THEN summarize_api(env) ELSE NoCall
    IN [email |-> [id |-> id, priority |-> p.val,
                   summary |-> s.val, ai_model |-> TagApi,
                   is_read |-> FALSE, is_archived |-> FALSE,
                   ai_processed |-> TRUE, ai_mode |-> "api",
                   privacy_level |-> privacy_result.level],
        calls |-> p.calls \cup t.calls \cup s.calls]

process_api_noFallback(id, msg, privacy_result, api_key, env) ==
    process_api_cloud(id, msg, privacy_result, env)

\* AIService._process_api; api_key is TRUE when a non-empty key is configured
process_api(id, msg, privacy_result, api_key, env) ==
    IF ~api_key THEN process_local(id, msg, privacy_result, env)
    ELSE process_api_cloud(id, msg, privacy_result, env)

process_hybrid_cloudWithoutKey(id, msg, privacy_result, api_key, env) ==
    LET p == classify_local(msg.kw, env)
        t == extract_tags_local(msg.kw, env)
        viaApi == msg.len > 500
        s == IF viaApi THEN summarize_api(env)
             ELSE IF msg.len > 100 THEN summarize_local(env) ELSE NoCall
    IN [email |-> [id |-> id, priority |-> p.val,
                   summary |-> s.val,
                   ai_model |-> IF viaApi THEN TagHybridApi ELSE TagHybridLocal,
                   is_read |-> FALSE, is_archived |-> FALSE,
                   ai_processed |-> TRUE, ai_mode |-> "hybrid",
                   privacy_level |-> privacy_result.level],
        calls |-> p.calls \cup t.calls \cup s.calls]

\* AIService._process_hybrid
process_hybrid(id, msg, privacy_result, api_key, env) ==
    LET p == classify_local(msg.kw, env)
        t == extract_tags_local(msg.kw, env)
        viaApi == msg.len > 500 /\ api_key
        s == IF viaApi THEN summarize_api(env)
             ELSE IF msg.len > 100 THEN summarize_local(env) ELSE NoCall
    IN [email |-> [id |-> id, priority |-> p.val,
                   summary |-> s.val,
                   ai_model |-> IF viaApi THEN TagHybridApi ELSE TagHybridLocal,
                   is_read |-> FALSE, is_archived |-> FALSE,
                   ai_processed |-> TRUE, ai_mode |-> "hybrid",
                   privacy_level |-> privacy_result.level],
        calls |-> p.calls \cup t.calls \cup s.calls]

\* AIService.process_email, for the service's mode and api_key
process_email(id, msg, mode, api_key, env) ==
    LET privacy_result == scan(msg.kw) IN
    IF should_disable_ai(privacy_result)
    THEN rule_based_process(id, msg, privacy_result)
    ELSE IF should_use_local(privacy_result)
    THEN process_local(id, msg, privacy_result, env)
    ELSE IF mode = "local" THEN process_local(id, msg, privacy_result, env)
    ELSE IF mode = "api" THEN process_api(id, msg, privacy_result, api_key, env)
    ELSE process_hybrid(id, msg, privacy_result, api_key, env)


(***************************************************************************)
(* The store (database.py), the mailbox at the IMAP server and the sync    *)
(* runs (routers/emails.py).                                               *)
(***************************************************************************)
\* number of messages the mailbox can hold; uid k is the k-th oldest message
MaxUid == 3
\* config.yaml sync section, batch sizes and cap scaled down to the mailbox
FirstSyncDays == 7
FirstSyncBatchSize == 1
FirstSyncDelayMs == 500
IncrementalSyncDays == 3
IncrementalSyncBatchSize == 2
IncrementalSyncDelayMs == 200
MaxEmailsPerSync == 2

\* the two requests that can be in flight
Runs == {"r1", "r2"}
\* values of the days query parameter
RequestDays == {1, 90}

\* age of a message in days, and its text
Age(uid) == IF uid = 1 THEN 5 ELSE 1
Content(uid) ==
    CASE uid = 1 -> [kw |-> {"password"}, len |-> 101]
      [] uid = 2 -> [kw |-> {"grade"}, len |-> 501]
      [] OTHER   -> [kw |-> {"exam"}, len |-> 501]

\* the endpoint behaviours met during a sync run
SyncEnvs == {e \in Envs : e.reply = "normal" /\ e.local_up /\ e.api_up}

VARIABLES
    email_configured,   \* config: imap_server and email are set
    ai_mode,            \* AIService.mode
    api_key,            \* AIService.api_key is non-empty
    mailbox,            \* uids at the server, oldest first
    emails,             \* table emails: id -> row
    sync_history,       \* table sync_history: row k has id k
    run,                \* per request: the locals of the handler
    cls,                \* the direct classification, once made: input and result
    config              \* Config.data and config.yaml: the secrets they hold

vars == <<email_configured, ai_mode, api_key, mailbox, emails, sync_history, run, cls,
          config>>

Min(a, b) == IF a < b THEN a ELSE b
Max_left(a, b) == a

Max(a, b) == IF a > b THEN a ELSE b

RECURSIVE Reverse(_)
Reverse(s) == IF s = <<>> THEN <<>> ELSE Append(Reverse(Tail(s)), Head(s))

Slice_inclusive(s, a, b) == SubSeq(s, a + 1, Min(b + 1, Len(s)))

\* Python slice s[a:b]
Slice(s, a, b) == SubSeq(s, a + 1, Min(b, Len(s)))

is_first_sync_noSession(h) == h = <<>>

\* Database.is_first_sync
is_first_sync(h) == \A k \in DOMAIN h : h[k].status # "completed"

\* Database.create_sync_session
create_sync_session(h, sync_type, days_range) ==
    Append(h, [sync_type |-> sync_type, days_range |-> days_range,
               emails_synced |-> 0, emails_processed |-> 0,
               status |-> "in_progress", error_message |-> None])

complete_sync_session_allRows(h, session_id, emails_synced, emails_processed) ==
    [k \in DOMAIN h |-> [h[k] EXCEPT !.emails_synced = emails_synced,
                                    !.emails_processed = emails_processed,
                                    !.status = "completed"]]

complete_sync_session_statusOnly(h, session_id, emails_synced, emails_processed) ==
    [k \in DOMAIN h |->
        IF k = session_id THEN [h[k] EXCEPT !.status = "completed"] ELSE h[k]]

\* Database.complete_sync_session
complete_sync_session(h, session_id, emails_synced, emails_processed) ==
    [k \in DOMAIN h |->
        IF k = session_id
        THEN [h[k] EXCEPT !.emails_synced = emails_synced,
                          !.emails_processed = emails_processed,
                          !.status = "completed"]
        ELSE h[k]]

fail_sync_session_noText(h, session_id, error_message) ==
    [k \in DOMAIN h |->
        IF k = session_id THEN [h[k] EXCEPT !.status = "failed"] ELSE h[k]]

fail_sync_session_noop(h, session_id, error_message) == h

fail_sync_session_textOnly(h, session_id, error_message) ==
    [k \in DOMAIN h |->
        IF k = session_id THEN [h[k] EXCEPT !.error_message = error_message] ELSE h[k]]

\* Database.fail_sync_session
fail_sync_session(h, session_id, error_message) ==
    [k \in DOMAIN h |->
        IF k = session_id
        THEN [h[k] EXCEPT !.status = "failed", !.error_message = error_message]
        ELSE h[k]]

email_exists_never(em, email_id) == FALSE

\* Database.email_exists
email_exists(em, email_id) == email_id \in DOMAIN em

save_email_onlyLast(em, email) == [x \in {email.id} |-> email]

save_email_insertOnly(em, email) ==
    IF email.id \in DOMAIN em THEN em
    ELSE [x \in DOMAIN em \cup {email.id} |-> IF x = email.id THEN email ELSE em[x]]

\* Database.save_email (INSERT OR REPLACE on the primary key id)
save_email(em, email) ==
    [x \in DOMAIN em \cup {email.id} |-> IF x = email.id THEN email ELSE em[x]]

delete_email_archives(em, email_id) ==
    [x \in DOMAIN em |-> IF x = email_id THEN [em[x] EXCEPT !.is_archived = TRUE] ELSE em[x]]

\* Database.delete_email
delete_email(em, email_id) == [x \in DOMAIN em \ {email_id} |-> em[x]]

\* IMAPService.fetch_uids; list_ok is FALSE when the search raises
fetch_uids(mb, days, list_ok) ==
    LET InWindow(u) == Age(u) <= days
    IN IF list_ok THEN SelectSeq(mb, InWindow) ELSE <<>>

\* IMAPService.fetch_by_uids: the server returns the matching messages in
\* mailbox order
fetch_by_uids(mb, uids) ==
    LET Asked(u) == u \in Range(uids)
    IN SelectSeq(mb, Asked)

new_uids_of_all(em, all_uids) == all_uids

new_uids_of_seen(em, all_uids) ==
    LET Seen(u) == email_exists(em, u)
    IN SelectSeq(all_uids, Seen)

\* the filter loop of the handlers: the uids that are not in the store
new_uids_of(em, all_uids) ==
    LET Unseen(u) == ~email_exists(em, u)
    IN SelectSeq(all_uids, Unseen)

newest_first_asListed(new_uids) == new_uids

\* new_uids = list(reversed(new_uids))
newest_first(new_uids) == Reverse(new_uids)

\* one entry of the log of gateway and store calls of a run
Call(op, arg) == [op |-> op, arg |-> arg]

Ev_currentIsSynced(event, total, current, synced, processed) ==
    [event |-> event, total |-> total, current |-> synced,
     synced |-> synced, processed |-> processed]

\* one event of the stream (or the SyncResult of the sync operation)
Ev(event, total, current, synced, processed) ==
    [event |-> event, total |-> total, current |-> current,
     synced |-> synced, processed |-> processed]

counted_always(n, ok) == n + 1

\* synced_count += 1 and processed_count += 1 at the end of the try block of
\* the message loop: reached only when nothing raised before (ok)
counted(n, ok) == IF ok THEN n + 1 ELSE n

skip_batch_andStop(rec, batch_uids) ==
    [rec EXCEPT !.i = rec.total,
                !.calls = Append(Append(@, Call("fetch_by_uids", batch_uids)),
                                 Call("raised", batch_uids))]

\* the except block around fetch_by_uids: the failure is logged and the
\* loop continues with the next batch
skip_batch(rec, batch_uids) ==
    [rec EXCEPT !.i = @ + rec.batch_size,
                !.calls = Append(Append(@, Call("fetch_by_uids", batch_uids)),
                                 Call("raised", batch_uids))]

finally_skip(rec) == rec

\* the finally block: imap.disconnect()
finally(rec) ==
    [rec EXCEPT !.connected = FALSE, !.calls = Append(@, Call("disconnect", <<>>))]

except_silent(rec, error_msg) == rec

\* the except block of the handlers: the error event (or error result).
\* Store faults are injected at the calls inside the try statement
\* (email_exists, complete_sync_session); create_sync_session and the
\* fail_sync_session of the handler itself are taken to succeed.
except(rec, error_msg) ==
    [rec EXCEPT !.events = Append(@, Ev("error", 0, 0, 0, 0)), !.error = error_msg]

(***************************************************************************)
(* The configuration (config.py, routers/settings.py): of Config.data and  *)
(* of config.yaml the model keeps the secrets, email.password and          *)
(* ai.api.key.                                                             *)
(***************************************************************************)
MASK == "***"
Passwords == {"", "app-password"}
Keys == {"", "sk-key"}
\* DEFAULT_CONFIG: no password, no key
DEFAULT_SECRETS == [password |-> "", key |-> ""]
\* a field of a request: <<>> when it is not given, else <<value>>
Optional(S) == {<<>>} \cup {<<v>> : v \in S}

\* Config.to_dict: self.data.copy().  The copy is shallow: it is a new
\* top-level dict whose values are the nested dicts of self.data themselves
to_dict(data) == data

\* get_settings, lines 34-40: the item assignments that mask the secrets
masked(settings) ==
    [password |-> IF settings.password # "" THEN MASK ELSE settings.password,
     key |-> IF settings.key # "" THEN MASK ELSE settings.key]

\* Config.set for a secret: the value is written to self.data (save follows)
set(data, key, value) == [data EXCEPT ![key] = value]

\* update_settings, lines 51-66: a field that is given and is not the mask is
\* set
updated(data, key, field) ==
    IF field # <<>> /\ field[1] # MASK THEN set(data, key, field[1]) ELSE data

InitRun ==
    [kind |-> None, pc |-> "idle", sync_type |-> None, days |-> 0,
     batch_size |-> 0, delay_ms |-> 0, max_emails |-> 0, session_id |-> 0,
     connected |-> FALSE, new_uids |-> <<>>, existing_count |-> 0, total |-> 0,
     i |-> 0, j |-> 0, batch_emails |-> <<>>, synced_count |-> 0,
     processed_count |-> 0, events |-> <<>>, calls |-> <<>>, error |-> None]

\* the mailbox holds all but the newest message; the service is built from
\* DEFAULT_CONFIG (mode hybrid, no key) unless config.yaml says otherwise
Init ==
    /\ email_configured \in BOOLEAN
    /\ ai_mode = "hybrid"
    /\ api_key = FALSE
    /\ mailbox = [k \in 1..(MaxUid - 1) |-> k]
    /\ emails = <<>>
    /\ sync_history = <<>>
    /\ run = [r \in Runs |-> InitRun]
    /\ cls = <<>>
    /\ config = [data |-> DEFAULT_SECRETS, file |-> DEFAULT_SECRETS]

(***************************************************************************)
(* Cooperative scheduling: the handlers run on one event loop, so a        *)
(* handler runs alone from one suspension point (yield, await) to the      *)
(* next.  sync_emails has no suspension point.                             *)
(***************************************************************************)
\* yield lines 92/99 + await 110; 128 + 129; 168 + 175; 203 + 210; await 214;
\* yield 160/217; yield 228; yield 81/124
InTryPCs == {"y_fetching", "y_found", "y_progress", "sleep_delay", "y_complete", "y_error"}
SuspPCs == {"y_connecting", "y_error_pre"} \cup InTryPCs
EndPCs == {"done", "closed"}

Suspended(q) == run[q].pc \in {"idle"} \cup EndPCs \cup SuspPCs
CanRun(r) == \A q \in Runs \ {r} : Suspended(q)
\* the requests are numbered in the order of their arrival
InOrder(r) == r = "r2" => run["r1"].pc # "idle"
\* no other request is in flight
Alone(r) == \A q \in Runs \ {r} : run[q].pc \in {"idle"} \cup EndPCs


(***************************************************************************)
(* GET /emails/sync-stream: event_generator                                *)
(***************************************************************************)
\* the strategy chosen from the sync history (or forced)
Strategy(is_first) ==
    IF is_first
    THEN [sync_type |-> "first_sync", days |-> FirstSyncDays,
          batch_size |-> FirstSyncBatchSize, delay_ms |-> FirstSyncDelayMs]
    ELSE [sync_type |-> "incremental_sync", days |-> IncrementalSyncDays,
          batch_size |-> IncrementalSyncBatchSize, delay_ms |-> IncrementalSyncDelayMs]

\* lines 73-110 for one value of the query parameters days and force_first:
\* configuration check, strategy, first status event
StreamStartWith(r, request_days, force_first) ==
    /\ run[r].pc = "idle"
    /\ CanRun(r)
    /\ InOrder(r)
    /\ LET strategy == Strategy(is_first_sync(sync_history) \/ force_first) IN
         run' = [run EXCEPT ![r] =
                  IF ~email_configured
                  THEN [@ EXCEPT !.kind = "stream", !.pc = "y_error_pre",
                                 !.events = Append(@, Ev("error", 0, 0, 0, 0))]
                  ELSE [@ EXCEPT !.kind = "stream", !.pc = "y_connecting",
                                 !.sync_type = strategy.sync_type,
                                 !.days = Max(request_days, strategy.days),
                                 !.batch_size = strategy.batch_size,
                                 !.delay_ms = strategy.delay_ms,
                                 !.max_emails = MaxEmailsPerSync,
                                 !.events = Append(@, Ev("status", 0, 0, 0, 0))]]
    /\ UNCHANGED <<email_configured, ai_mode, api_key, mailbox, emails, sync_history, cls, config>>

\* GET /emails/sync-stream arrives
StreamStart(r) ==
    \E request_days \in RequestDays, force_first \in BOOLEAN :
        StreamStartWith(r, request_days, force_first)

\* lines 112-128: create the session, connect
StreamConnect(r) ==
    /\ run[r].kind = "stream"
    /\ run[r].pc = "y_connecting"
    /\ CanRun(r)
    /\ \E connect_ok \in BOOLEAN :
         LET h == create_sync_session(sync_history, run[r].sync_type, run[r].days)
             session_id == Len(h)
         IN IF ~connect_ok
            THEN /\ sync_history' = fail_sync_session(h, session_id, "IMAP connection failed")
                 /\ run' = [run EXCEPT ![r] =
                       [@ EXCEPT !.session_id = session_id, !.pc = "y_error_pre",
                                 !.calls = Append(@, Call("connect", FALSE)),
                                 !.events = Append(@, Ev("error", 0, 0, 0, 0)),
                                 !.error = "IMAP connection failed"]]
            ELSE /\ sync_history' = h
                 /\ run' = [run EXCEPT ![r] =
                       [@ EXCEPT !.session_id = session_id, !.pc = "y_fetching",
                                 !.connected = TRUE,
                                 !.calls = Append(@, Call("connect", TRUE)),
                                 !.events = Append(@, Ev("status", 0, 0, 0, 0))]]
    /\ UNCHANGED <<email_configured, ai_mode, api_key, mailbox, emails, cls, config>>

\* lines 131-175: list the uids, filter, reverse, cap, and the empty case;
\* fault names the store call that raises, if any
StreamListAndFilter(r) ==
    /\ run[r].kind = "stream"
    /\ run[r].pc = "y_fetching"
    /\ CanRun(r)
    /\ \E list_ok \in BOOLEAN, fault \in {"none", "email_exists", "complete_sync_session"} :
         LET all_uids == fetch_uids(mailbox, run[r].days, list_ok)
             unseen == newest_first(new_uids_of(emails, all_uids))
             new_uids == IF Len(unseen) > run[r].max_emails
                         THEN Slice(unseen, 0, run[r].max_emails) ELSE unseen
             total == Len(new_uids)
             listed == [run[r] EXCEPT !.calls = Append(@, Call("fetch_uids", all_uids))]
             checked == [listed EXCEPT !.calls = Append(@, Call("email_exists", all_uids)),
                                       !.existing_count = Len(all_uids) - Len(unseen),
                                       !.new_uids = new_uids, !.total = total]
         IN /\ fault = "email_exists" => all_uids # <<>>
            /\ fault = "complete_sync_session" => total = 0
            /\ IF fault = "email_exists"
               THEN /\ sync_history' = fail_sync_session(sync_history, run[r].session_id, fault)
                    /\ run' = [run EXCEPT ![r] =
                          [except(listed, fault) EXCEPT !.pc = "y_error"]]
               ELSE IF fault = "complete_sync_session"
               THEN /\ sync_history' = fail_sync_session(sync_history, run[r].session_id, fault)
                    /\ run' = [run EXCEPT ![r] =
                          [except(checked, fault) EXCEPT !.pc = "y_error"]]
               ELSE IF total = 0
               THEN /\ sync_history' = complete_sync_session(sync_history, run[r].session_id, 0, 0)
                    /\ run' = [run EXCEPT ![r] =
                          [checked EXCEPT !.pc = "y_complete",
                                          !.events = Append(@, Ev("complete", 0, 0, 0, 0))]]
               ELSE /\ sync_history' = sync_history
                    /\ run' = [run EXCEPT ![r] =
                          [checked EXCEPT !.pc = "y_found", !.i = 0,
                                          !.synced_count = 0, !.processed_count = 0,
                                          !.events = Append(@, Ev("progress", total, 0, 0, 0))]]
    /\ UNCHANGED <<email_configured, ai_mode, api_key, mailbox, emails, cls, config>>

\* lines 181-188: the head of the batch loop and the batch fetch
StreamFetchBatch(r) ==
    /\ run[r].kind = "stream"
    /\ run[r].pc \in {"y_found", "sleep_delay", "batch"}
    /\ CanRun(r)
    /\ run[r].i < run[r].total
    /\ \E fetch_ok \in BOOLEAN :
         LET batch_uids == Slice(run[r].new_uids, run[r].i, run[r].i + run[r].batch_size)
         IN run' = [run EXCEPT ![r] =
              IF fetch_ok
              THEN [@ EXCEPT !.batch_emails = fetch_by_uids(mailbox, batch_uids),
                             !.j = 0, !.pc = "msg",
                             !.calls = Append(@, Call("fetch_by_uids", batch_uids))]
              ELSE [skip_batch(run[r], batch_uids) EXCEPT !.pc = "batch"]]
    /\ UNCHANGED <<email_configured, ai_mode, api_key, mailbox, emails, sync_history, cls, config>>

\* lines 190-210: one message of the batch; ok is FALSE when process_email
\* or save_email raises
StreamProcessMessage(r) ==
    /\ run[r].kind = "stream"
    /\ run[r].pc \in {"msg", "y_progress"}
    /\ CanRun(r)
    /\ run[r].j < Len(run[r].batch_emails)
    /\ \E ok \in BOOLEAN, env \in SyncEnvs :
         LET raw_email == run[r].batch_emails[run[r].j + 1]
             processed_email ==
                 process_email(raw_email, Content(raw_email), ai_mode, api_key, env).email
             synced == counted(run[r].synced_count, ok)
             processed == counted(run[r].processed_count, ok /\ processed_email.ai_processed)
         IN /\ emails' = IF ok THEN save_email(emails, processed_email) ELSE emails
            /\ run' = [run EXCEPT ![r] =
                 [@ EXCEPT !.synced_count = synced, !.processed_count = processed,
                           !.j = @ + 1, !.pc = "y_progress",
                           !.calls = IF ok THEN Append(@, Call("save_email", raw_email)) ELSE @,
                           !.events = Append(@, Ev("progress", run[r].total,
                                                   run[r].i + run[r].j + 1, synced, processed))]]
    /\ UNCHANGED <<email_configured, ai_mode, api_key, mailbox, sync_history, cls, config>>

\* lines 212-214 and the loop increment: the end of a batch
StreamEndBatch(r) ==
    /\ run[r].kind = "stream"
    /\ run[r].pc \in {"msg", "y_progress"}
    /\ CanRun(r)
    /\ run[r].j >= Len(run[r].batch_emails)
    /\ run' = [run EXCEPT ![r] =
         [@ EXCEPT !.i = @ + run[r].batch_size,
                   !.pc = IF run[r].i + run[r].batch_size < run[r].total /\ run[r].delay_ms > 0
                          THEN "sleep_delay" ELSE "batch"]]
    /\ UNCHANGED <<email_configured, ai_mode, api_key, mailbox, emails, sync_history, cls, config>>

\* lines 216-228: the end of the loop; complete_ok is FALSE when
\* complete_sync_session raises
StreamComplete(r) ==
    /\ run[r].kind = "stream"
    /\ run[r].pc = "batch"
    /\ CanRun(r)
    /\ run[r].i >= run[r].total
    /\ \E complete_ok \in BOOLEAN :
         IF complete_ok
         THEN /\ sync_history' = complete_sync_session(sync_history, run[r].session_id,
                                     run[r].synced_count, run[r].processed_count)
              /\ run' = [run EXCEPT ![r] =
                   [@ EXCEPT !.pc = "y_complete",
                             !.events = Append(@, Ev("complete", 0, 0, run[r].synced_count,
                                                     run[r].processed_count))]]
         ELSE /\ sync_history' = fail_sync_session(sync_history, run[r].session_id,
                                     "complete_sync_session")
              /\ run' = [run EXCEPT ![r] =
                   [except(run[r], "complete_sync_session") EXCEPT !.pc = "y_error"]]
    /\ UNCHANGED <<email_configured, ai_mode, api_key, mailbox, emails, cls, config>>

\* the generator is resumed after its terminal event: return, through the
\* finally block when the event was yielded inside the try statement
StreamReturn(r) ==
    /\ run[r].kind = "stream"
    /\ run[r].pc \in {"y_error_pre", "y_complete", "y_error"}
    /\ CanRun(r)
    /\ run' = [run EXCEPT ![r] =
         [(IF run[r].pc \in InTryPCs THEN finally(run[r]) ELSE run[r]) EXCEPT !.pc = "done"]]
    /\ UNCHANGED <<email_configured, ai_mode, api_key, mailbox, emails, sync_history, cls, config>>

StreamClose_caughtAsFailure(r) ==
    /\ run[r].kind = "stream"
    /\ run[r].pc \in SuspPCs
    /\ CanRun(r)
    /\ run' = [run EXCEPT ![r] =
         [(IF run[r].pc \in InTryPCs THEN finally(except(run[r], "closed")) ELSE run[r])
             EXCEPT !.pc = "closed"]]
    /\ sync_history' = IF run[r].pc \in InTryPCs
                       THEN fail_sync_session(sync_history, run[r].session_id, "closed")
                       ELSE sync_history
    /\ UNCHANGED <<email_configured, ai_mode, api_key, mailbox, emails, cls, config>>

\* the consumer closes the stream: GeneratorExit (or cancellation) is raised
\* at the suspension point; except Exception does not catch it, finally runs
StreamClose(r) ==
    /\ run[r].kind = "stream"
    /\ run[r].pc \in SuspPCs
    /\ CanRun(r)
    /\ run' = [run EXCEPT ![r] =
         [(IF run[r].pc \in InTryPCs THEN finally(run[r]) ELSE run[r]) EXCEPT !.pc = "closed"]]
    /\ UNCHANGED <<email_configured, ai_mode, api_key, mailbox, emails, sync_history, cls, config>>


(***************************************************************************)
(* POST /emails/sync: sync_emails.  The handler has no suspension point:   *)
(* its steps are never interleaved with another handler.                   *)
(***************************************************************************)
\* lines 254-302: configuration check, strategy, session, connect
SyncStart(r) ==
    /\ run[r].pc = "idle"
    /\ CanRun(r)
    /\ InOrder(r)
    /\ \E connect_ok \in BOOLEAN :
         LET strategy == Strategy(is_first_sync(sync_history))
             h == create_sync_session(sync_history, strategy.sync_type, strategy.days)
             session_id == Len(h)
             started == [run[r] EXCEPT !.kind = "sync", !.sync_type = strategy.sync_type,
                                       !.days = strategy.days,
                                       !.batch_size = strategy.batch_size,
                                       !.max_emails = MaxEmailsPerSync,
                                       !.session_id = session_id]
         IN IF ~email_configured
            THEN /\ connect_ok
                 /\ sync_history' = sync_history
                 /\ run' = [run EXCEPT ![r] =
                       [@ EXCEPT !.kind = "sync", !.pc = "done",
                                 !.events = Append(@, Ev("error", 0, 0, 0, 0))]]
            ELSE IF ~connect_ok
            THEN /\ sync_history' = fail_sync_session(h, session_id, "IMAP connection failed")
                 /\ run' = [run EXCEPT ![r] =
                       [started EXCEPT !.pc = "done",
                                       !.calls = Append(@, Call("connect", FALSE)),
                                       !.events = Append(@, Ev("error", 0, 0, 0, 0)),
                                       !.error = "IMAP connection failed"]]
            ELSE /\ sync_history' = h
                 /\ run' = [run EXCEPT ![r] =
                       [started EXCEPT !.pc = "s_listing", !.connected = TRUE,
                                       !.calls = Append(@, Call("connect", TRUE))]]
    /\ UNCHANGED <<email_configured, ai_mode, api_key, mailbox, emails, cls, config>>

\* lines 305-320: list the uids, filter, cap
SyncListAndFilter(r) ==
    /\ run[r].kind = "sync"
    /\ run[r].pc = "s_listing"
    /\ \E list_ok \in BOOLEAN, fault \in {"none", "email_exists"} :
         LET all_uids == fetch_uids(mailbox, run[r].days, list_ok)
             unseen == new_uids_of(emails, all_uids)
             new_uids == IF Len(unseen) > run[r].max_emails
                         THEN Slice(unseen, 0, run[r].max_emails) ELSE unseen
             listed == [run[r] EXCEPT !.calls = Append(@, Call("fetch_uids", all_uids))]
             checked == [listed EXCEPT !.calls = Append(@, Call("email_exists", all_uids)),
                                       !.existing_count = Len(all_uids) - Len(unseen),
                                       !.new_uids = new_uids, !.total = Len(new_uids)]
         IN /\ fault = "email_exists" => all_uids # <<>>
            /\ IF fault = "email_exists"
               THEN /\ sync_history' = fail_sync_session(sync_history, run[r].session_id, fault)
                    /\ run' = [run EXCEPT ![r] =
                          [finally(except(listed, fault)) EXCEPT !.pc = "done"]]
               ELSE /\ sync_history' = sync_history
                    /\ run' = [run EXCEPT ![r] =
                          [checked EXCEPT !.pc = "s_batch", !.i = 0,
                                          !.synced_count = 0, !.processed_count = 0]]
    /\ UNCHANGED <<email_configured, ai_mode, api_key, mailbox, emails, cls, config>>

\* lines 323-329: the head of the batch loop and the batch fetch
SyncFetchBatch(r) ==
    /\ run[r].kind = "sync"
    /\ run[r].pc = "s_batch"
    /\ run[r].i < Len(run[r].new_uids)
    /\ \E fetch_ok \in BOOLEAN :
         LET batch_uids == Slice(run[r].new_uids, run[r].i, run[r].i + run[r].batch_size)
         IN run' = [run EXCEPT ![r] =
              IF fetch_ok
              THEN [@ EXCEPT !.batch_emails = fetch_by_uids(mailbox, batch_uids),
                             !.j = 0, !.pc = "s_msg",
                             !.calls = Append(@, Call("fetch_by_uids", batch_uids))]
              ELSE skip_batch(run[r], batch_uids)]
    /\ UNCHANGED <<email_configured, ai_mode, api_key, mailbox, emails, sync_history, cls, config>>

\* lines 331-343: one message of the batch
SyncProcessMessage(r) ==
    /\ run[r].kind = "sync"
    /\ run[r].pc = "s_msg"
    /\ run[r].j < Len(run[r].batch_emails)
    /\ \E ok \in BOOLEAN, env \in SyncEnvs :
         LET raw_email == run[r].batch_emails[run[r].j + 1]
             processed_email ==
                 process_email(raw_email, Content(raw_email), ai_mode, api_key, env).email
         IN /\ emails' = IF ok THEN save_email(emails, processed_email) ELSE emails
            /\ run' = [run EXCEPT ![r] =
                 [@ EXCEPT !.synced_count = counted(@, ok),
                           !.processed_count = counted(@, ok /\ processed_email.ai_processed),
                           !.j = @ + 1,
                           !.calls = IF ok THEN Append(@, Call("save_email", raw_email)) ELSE @]]
    /\ UNCHANGED <<email_configured, ai_mode, api_key, mailbox, sync_history, cls, config>>

\* the loop increment after the last message of a batch
SyncEndBatch(r) ==
    /\ run[r].kind = "sync"
    /\ run[r].pc = "s_msg"
    /\ run[r].j >= Len(run[r].batch_emails)
    /\ run' = [run EXCEPT ![r] = [@ EXCEPT !.i = @ + run[r].batch_size, !.pc = "s_batch"]]
    /\ UNCHANGED <<email_configured, ai_mode, api_key, mailbox, emails, sync_history, cls, config>>

\* lines 345-364: the end of the loop, the result and the finally block
SyncComplete(r) ==
    /\ run[r].kind = "sync"
    /\ run[r].pc = "s_batch"
    /\ run[r].i >= Len(run[r].new_uids)
    /\ \E complete_ok \in BOOLEAN :
         IF complete_ok
         THEN /\ sync_history' = complete_sync_session(sync_history, run[r].session_id,
                                     run[r].synced_count, run[r].processed_count)
              /\ run' = [run EXCEPT ![r] =
                   [finally([@ EXCEPT !.events = Append(@, Ev("complete", 0, 0,
                                run[r].synced_count, run[r].processed_count))])
                      EXCEPT !.pc = "done"]]
         ELSE /\ sync_history' = fail_sync_session(sync_history, run[r].session_id,
                                     "complete_sync_session")
              /\ run' = [run EXCEPT ![r] =
                   [finally(except(run[r], "complete_sync_session")) EXCEPT !.pc = "done"]]
    /\ UNCHANGED <<email_configured, ai_mode, api_key, mailbox, emails, cls, config>>

(***************************************************************************)
(* The other operations                                                    *)
(***************************************************************************)
\* a message arrives at the server
NewMail ==
    /\ \A q \in Runs : Suspended(q)
    /\ Len(mailbox) < MaxUid
    /\ mailbox' = Append(mailbox, Len(mailbox) + 1)
    /\ UNCHANGED <<email_configured, ai_mode, api_key, emails, sync_history, run, cls, config>>

\* DELETE /emails/{email_id}
DeleteEmail ==
    /\ \A q \in Runs : Suspended(q)
    /\ \E email_id \in DOMAIN emails : emails' = delete_email(emails, email_id)
    /\ UNCHANGED <<email_configured, ai_mode, api_key, mailbox, sync_history, run, cls, config>>

\* Database.update_email_status; an argument that is not given (None) is
\* the empty sequence, a given one the sequence of its value
update_email_status(em, email_id, is_read, is_archived) ==
    [x \in DOMAIN em |->
        IF x = email_id
        THEN [em[x] EXCEPT !.is_read = IF is_read = <<>> THEN @ ELSE is_read[1],
                           !.is_archived = IF is_archived = <<>> THEN @ ELSE is_archived[1]]
        ELSE em[x]]

\* PUT /emails/{email_id}/read
MarkEmailRead ==
    /\ \A q \in Runs : Suspended(q)
    /\ \E email_id \in 1..MaxUid :
         /\ email_exists(emails, email_id)
         /\ emails' = update_email_status(emails, email_id, <<TRUE>>, <<>>)
    /\ UNCHANGED <<email_configured, ai_mode, api_key, mailbox, sync_history, run, cls, config>>

\* PUT /emails/{email_id}/archive
ArchiveEmail ==
    /\ \A q \in Runs : Suspended(q)
    /\ \E email_id \in 1..MaxUid :
         /\ email_exists(emails, email_id)
         /\ emails' = update_email_status(emails, email_id, <<>>, <<TRUE>>)
    /\ UNCHANGED <<email_configured, ai_mode, api_key, mailbox, sync_history, run, cls, config>>

\* PUT /emails/{email_id}/unarchive
UnarchiveEmail ==
    /\ \A q \in Runs : Suspended(q)
    /\ \E email_id \in 1..MaxUid :
         /\ email_exists(emails, email_id)
         /\ emails' = update_email_status(emails, email_id, <<>>, <<FALSE>>)
    /\ UNCHANGED <<email_configured, ai_mode, api_key, mailbox, sync_history, run, cls, config>>

\* a direct call of AIService.process_email
Classify ==
    /\ cls = <<>>
    /\ \E msg \in Messages, env \in Envs :
         LET res == process_email(1, msg, ai_mode, api_key, env)
         IN cls' = <<[msg |-> msg, env |-> env, privacy_result |-> scan(msg.kw),
                     email |-> res.email, calls |-> res.calls]>>
    /\ UNCHANGED <<email_configured, ai_mode, api_key, mailbox, emails, sync_history, run, config>>

\* the steps of a request that has arrived
Step(r) ==
    \/ StreamConnect(r) \/ StreamListAndFilter(r)
    \/ StreamFetchBatch(r) \/ StreamProcessMessage(r) \/ StreamEndBatch(r)
    \/ StreamComplete(r) \/ StreamReturn(r) \/ StreamClose(r)
    \/ SyncListAndFilter(r) \/ SyncFetchBatch(r)
    \/ SyncProcessMessage(r) \/ SyncEndBatch(r) \/ SyncComplete(r)

\* no request is in flight
Quiet == \A q \in Runs : run[q].pc \in {"idle"} \cup EndPCs

\* requests (the delete request too) arrive one after the other; mail
\* arrives at any time
Next ==
    \/ \E r \in Runs : (Alone(r) /\ StreamStart(r)) \/ (Alone(r) /\ SyncStart(r)) \/ Step(r)
    \/ NewMail
    \/ (Quiet /\ DeleteEmail)

\* requests arrive at any time, over a mailbox and a store that only the
\* requests change
NextConcurrent ==
    \E r \in Runs : StreamStart(r) \/ SyncStart(r) \/ Step(r)

\* a stream request without forcing and then a request of the deprecated
\* operation, over a mailbox that changes only before the first request
NextCompare ==
    \/ (run["r1"].pc = "idle" /\ NewMail)
    \/ \E request_days \in RequestDays : StreamStartWith("r1", request_days, FALSE)
    \/ SyncStart("r2")
    \/ \E r \in Runs : Step(r)

Spec == Init /\ [][Next]_vars

SpecCompare == Init /\ [][NextCompare]_vars

\* the first request has ended and the second has not arrived
Between == run["r1"].pc \in EndPCs /\ run["r2"].pc = "idle"

\* two sync requests one after the other; mail arrives before the first, and
\* messages are deleted, marked read, archived and unarchived between them
NextDedup ==
    \/ \E r \in Runs : (Alone(r) /\ StreamStart(r)) \/ (Alone(r) /\ SyncStart(r)) \/ Step(r)
    \/ (run["r1"].pc = "idle" /\ NewMail)
    \/ (Between /\ DeleteEmail)
    \/ (Between /\ MarkEmailRead)
    \/ (Between /\ ArchiveEmail)
    \/ (Between /\ UnarchiveEmail)

SpecDedup == Init /\ [][NextDedup]_vars

SpecConcurrent == Init /\ [][NextConcurrent]_vars

\* the classification policy on its own: every message, mode and credential
InitPolicy ==
    /\ email_configured \in BOOLEAN
    /\ ai_mode \in AIMode
    /\ api_key \in BOOLEAN
    /\ mailbox = <<>>
    /\ emails = <<>>
    /\ sync_history = <<>>
    /\ run = [r \in Runs |-> InitRun]
    /\ cls = <<>>
    /\ config = [data |-> DEFAULT_SECRETS, file |-> DEFAULT_SECRETS]

SpecPolicy == InitPolicy /\ [][Classify]_vars

(***************************************************************************)
(* Deadline extraction (utils/date_parser.py).  A text is abstracted to    *)
(* the sequence of its date-shaped fragments, in the order of the text;    *)
(* a fragment is what one of the five patterns matches, with the numbers   *)
(* of its groups g1, g2, g3 in the order of the pattern (0: no group).     *)
(***************************************************************************)
\* the largest number of date-shaped fragments of a text
MaxFragments == 2
\* the values of datetime.now().year: a common year and a leap year
CurrentYears == {2027, 2028}

Frag(kind, g1, g2, g3) == [kind |-> kind, g1 |-> g1, g2 |-> g2, g3 |-> g3]

\* "2026-03-01", "2026-13-01", "3月1日", "2月29日", "01/03/2026",
\* "March 1, 2026", "1 March "
Fragments ==
    {Frag("iso", 2026, 3, 1), Frag("iso", 2026, 13, 1),
     Frag("chinese", 3, 1, 0), Frag("chinese", 2, 29, 0),
     Frag("dmy", 1, 3, 2026), Frag("mdy", 3, 1, 2026), Frag("dmy_eng", 1, 3, 0)}

Texts == UNION {[1..n -> Fragments] : n \in 0..MaxFragments}

is_leap(year) == year % 4 = 0 /\ (year % 100 # 0 \/ year % 400 = 0)

days_in_month(year, month) ==
    IF month = 2 THEN (IF is_leap(year) THEN 29 ELSE 28)
    ELSE IF month \in {4, 6, 9, 11} THEN 30 ELSE 31

\* datetime(year, month, day) does not raise ValueError
valid_date(year, month, day) ==
    /\ year \in 1..9999
    /\ month \in 1..12
    /\ day >= 1 /\ day <= days_in_month(year, month)

search_last(kind, text) ==
    LET m == SelectSeq(text, LAMBDA f : f.kind = kind)
    IN IF m = <<>> THEN <<>> ELSE <<m[Len(m)]>>

\* re.search(pattern, text): the leftmost match of the pattern, if any
search(kind, text) ==
    LET m == SelectSeq(text, LAMBDA f : f.kind = kind)
    IN IF m = <<>> THEN <<>> ELSE <<m[1]>>

datetime(year, month, day) == [year |-> year, month |-> month, day |-> day]

parse_deadline_firstMatchOnly(text, now_year) ==
    LET iso == search("iso", text)
        chinese == search("chinese", text)
        dmy == search("dmy", text)
        mdy == search("mdy", text)
        dmy_eng == search("dmy_eng", text)
        year_eng == IF dmy_eng[1].g3 # 0 THEN dmy_eng[1].g3 ELSE now_year
        only(year, month, day) ==
            IF valid_date(year, month, day) THEN <<datetime(year, month, day)>> ELSE <<>>
    IN IF iso # <<>> THEN only(iso[1].g1, iso[1].g2, iso[1].g3)
       ELSE IF chinese # <<>> THEN only(now_year, chinese[1].g1, chinese[1].g2)
       ELSE IF dmy # <<>> THEN only(dmy[1].g3, dmy[1].g2, dmy[1].g1)
       ELSE IF mdy # <<>> THEN only(mdy[1].g3, mdy[1].g1, mdy[1].g2)
       ELSE IF dmy_eng # <<>> THEN only(year_eng, dmy_eng[1].g2, dmy_eng[1].g1)
       ELSE <<>>

\* parse_deadline: the patterns in order; a match that is not a calendar
\* date (ValueError) passes on to the next pattern; <<>> is None
parse_deadline(text, now_year) ==
    LET iso == search("iso", text)
        chinese == search("chinese", text)
        dmy == search("dmy", text)
        mdy == search("mdy", text)
        dmy_eng == search("dmy_eng", text)
        year_eng == IF dmy_eng[1].g3 # 0 THEN dmy_eng[1].g3 ELSE now_year
    IN IF iso # <<>> /\ valid_date(iso[1].g1, iso[1].g2, iso[1].g3)
       THEN <<datetime(iso[1].g1, iso[1].g2, iso[1].g3)>>
       ELSE IF chinese # <<>> /\ valid_date(now_year, chinese[1].g1, chinese[1].g2)
       THEN <<datetime(now_year, chinese[1].g1, chinese[1].g2)>>
       ELSE IF dmy # <<>> /\ valid_date(dmy[1].g3, dmy[1].g2, dmy[1].g1)
       THEN <<datetime(dmy[1].g3, dmy[1].g2, dmy[1].g1)>>
       ELSE IF mdy # <<>> /\ valid_date(mdy[1].g3, mdy[1].g1, mdy[1].g2)
       THEN <<datetime(mdy[1].g3, mdy[1].g1, mdy[1].g2)>>
       ELSE IF dmy_eng # <<>> /\ valid_date(year_eng, dmy_eng[1].g2, dmy_eng[1].g1)
       THEN <<datetime(year_eng, dmy_eng[1].g2, dmy_eng[1].g1)>>
       ELSE <<>>

\* deadline.strftime("%Y-%m-%d"): the three fields of the string
strftime(deadline) == <<deadline.year, deadline.month, deadline.day>>

\* AIService._extract_deadline_rule_based (and _extract_deadline_local,
\* which has the same body); <<>> is None
extract_deadline_rule_based(text, now_year) ==
    LET deadline == parse_deadline(text, now_year)
    IN IF deadline # <<>> THEN <<strftime(deadline[1])>> ELSE <<>>

\* a direct call of the deadline extraction on the text "subject body"
ExtractDeadline ==
    /\ cls = <<>>
    /\ \E text \in Texts, now_year \in CurrentYears :
         cls' = <<[text |-> text, now_year |-> now_year,
                   deadline |-> extract_deadline_rule_based(text, now_year)]>>
    /\ UNCHANGED <<email_configured, ai_mode, api_key, mailbox, emails, sync_history, run, config>>

SpecDeadline == Init /\ [][ExtractDeadline]_vars

\* the keywords and patterns of the four tables
ScanVocabulary ==
    Range(EXTREME_KEYWORDS) \cup Range(SENSITIVE_PATTERNS)
        \cup Range(HIGH_KEYWORDS) \cup Range(MEDIUM_KEYWORDS)

\* a direct call of PrivacyService.scan on a text with the keywords kw
Scan ==
    /\ cls = <<>>
    /\ \E kw \in SUBSET ScanVocabulary :
         cls' = <<[kw |-> kw, privacy_result |-> scan(kw)]>>
    /\ UNCHANGED <<email_configured, ai_mode, api_key, mailbox, emails, sync_history, run, config>>

SpecScan == Init /\ [][Scan]_vars

(***************************************************************************)
(* Tag extraction (ai_service.py).  The answer of the model endpoint is    *)
(* the sequence of the pieces between the commas of its text; a text for   *)
(* the rule-based extraction is the set of tag keywords that occur in it.  *)
(***************************************************************************)
\* the largest number of comma-separated pieces of an answer
MaxReplyTags == 5
\* pieces of an answer: a tag, the same tag in another case and with
\* blanks, a second tag, a blank piece, a piece of 20 or more characters
Pieces == {"exam", " Exam ", "quiz", " ", "school of engineering news"}
\* the answers of the endpoint; Raised: the call raises
Raised == <<"raised">>
TagReplies == UNION {[1..n -> Pieces] : n \in 1..MaxReplyTags} \cup {Raised}

\* t.strip().lower()
strip_lower(t) ==
    CASE t = " Exam " -> "exam"
      [] t = " " -> ""
      [] OTHER -> t
\* len(t) < 20
short(t) == t # "school of engineering news"

\* _extract_tags_rule_based: tag_keywords in the order of the dictionary
tag_keywords ==
    <<[tag |-> "assignment", keywords |-> {"assignment", "homework"}],
      [tag |-> "deadline", keywords |-> {"deadline", "due"}],
      [tag |-> "exam", keywords |-> {"exam", "quiz"}],
      [tag |-> "lecture", keywords |-> {"lecture"}],
      [tag |-> "career", keywords |-> {"career"}]>>
TagVocabulary == UNION {tag_keywords[k].keywords : k \in DOMAIN tag_keywords}

\* AIService._extract_tags_rule_based
extract_tags_rule_based(kw) ==
    LET tags == SelectSeq(tag_keywords, LAMBDA e : e.keywords \cap kw # {})
    IN Slice([k \in DOMAIN tags |-> tags[k].tag], 0, 4)

\* lines 481-482 and 609-610: the tags parsed from the answer
parse_tags(result) ==
    LET tags == [k \in DOMAIN result |-> strip_lower(result[k])]
    IN Slice(SelectSeq(tags, LAMBDA t : t # "" /\ short(t)), 0, 4)

\* AIService._extract_tags_local and _extract_tags_api: the tags returned
extract_tags(kw, reply) ==
    IF reply = Raised THEN extract_tags_rule_based(kw) ELSE parse_tags(reply)

\* the tags field of the result of the four processors (lines 203, 251,
\* 306, 359)
Processors == {"rule_based", "local", "api", "hybrid"}
tags_of(processor, kw, reply) ==
    IF processor = "rule_based" THEN extract_tags_rule_based(kw)
    ELSE extract_tags(kw, reply)

\* the texts and answers met by the tag extraction: every text with a
\* failing endpoint, every answer for one text
TagInputs ==
    {[kw |-> kw, reply |-> Raised] : kw \in SUBSET TagVocabulary}
        \cup {[kw |-> {"exam"}, reply |-> reply] : reply \in TagReplies}

\* a message is processed by one of the four processors: its tags
ExtractTags ==
    /\ cls = <<>>
    /\ \E processor \in Processors, input \in TagInputs :
         cls' = <<[processor |-> processor, kw |-> input.kw, reply |-> input.reply,
                   tags |-> tags_of(processor, input.kw, input.reply)]>>
    /\ UNCHANGED <<email_configured, ai_mode, api_key, mailbox, emails, sync_history, run, config>>

SpecTags == Init /\ [][ExtractTags]_vars

\* PUT /settings: the mode and the secrets are set and saved, and the AI
\* service is rebuilt from the configuration
UpdateSettings ==
    /\ \E mode \in AIMode, password \in Optional(Passwords \cup {MASK}),
          key \in Optional(Keys \cup {MASK}) :
         LET data == updated(updated(config.data, "password", password), "key", key)
         IN \* every Config.set ends with save(); ai.mode is set in every request
            /\ config' = [data |-> data, file |-> data]
            \* reload_ai_service: the service is built from the configuration
            /\ ai_mode' = mode
            /\ api_key' = (data.key # "")
    /\ UNCHANGED <<email_configured, mailbox, emails, sync_history, run, cls>>

\* GET /settings: the configuration is copied, the copy masked and returned.
\* The masking assigns to settings["email"] and settings["ai"]["api"], the
\* nested dicts that the shallow copy shares with Config.data
GetSettings ==
    /\ LET settings == masked(to_dict(config.data))
       IN /\ cls' = <<[returned |-> settings]>>
          /\ config' = [config EXCEPT !.data = settings]
    /\ UNCHANGED <<email_configured, ai_mode, api_key, mailbox, emails, sync_history, run>>

\* POST /settings/test-imap: the password of the request, or the stored one
\* when it is not given or is the mask
TestImap ==
    /\ \E password \in Optional({"typed", MASK}) :
         LET stored == config.data.password
             given == IF password # <<>> THEN password[1] ELSE stored
             used == IF given = MASK THEN stored ELSE given
         IN cls' = <<[imap_password |-> used]>>
    /\ UNCHANGED <<email_configured, ai_mode, api_key, mailbox, emails, sync_history, run,
                   config>>

\* the settings operations on their own
NextSettings == GetSettings \/ UpdateSettings \/ TestImap

SpecSettings == Init /\ [][NextSettings]_vars

\* a message is processed and its Classified Result saved, as in the
\* message loop of the handlers; cls keeps the store before the call and
\* the result
SaveEmail ==
    \E email_id \in 1..MaxUid, env \in SyncEnvs :
        LET res == process_email(email_id, Content(email_id), ai_mode, api_key, env)
        IN /\ emails' = save_email(emails, res.email)
           /\ cls' = <<[before |-> emails, email |-> res.email]>>
           /\ UNCHANGED <<email_configured, ai_mode, api_key, mailbox, sync_history, run, config>>

\* the store on its own: messages are processed and saved again and again
\* under changing settings
NextStore == SaveEmail \/ UpdateSettings

SpecStore == Init /\ [][NextStore]_vars

(***************************************************************************)
(* A store whose session update fails too.  fail_sync_session runs the     *)
(* UPDATE inside get_connection, which re-raises every sqlite error; the   *)
(* handlers call it outside a try statement (lines 123, 296) and inside    *)
(* the except block (lines 226, 355), so its exception leaves the handler: *)
(* no error event or result is produced and the session row is not         *)
(* written.  The finally block still runs when the call is in the try      *)
(* statement.                                                              *)
(***************************************************************************)
\* the handler is left by the exception of fail_sync_session
fail_raises(rec) == [rec EXCEPT !.error = "fail_sync_session", !.pc = "done"]

\* sync-stream: fail_sync_session raises at line 123 (connect failed), or at
\* line 226 after email_exists or complete_sync_session raised
StreamFailSessionRaises(r) ==
    /\ run[r].kind = "stream"
    /\ CanRun(r)
    /\ \/ /\ run[r].pc = "y_connecting"
          /\ LET h == create_sync_session(sync_history, run[r].sync_type, run[r].days)
             IN /\ sync_history' = h
                /\ run' = [run EXCEPT ![r] =
                      fail_raises([@ EXCEPT !.session_id = Len(h),
                                            !.calls = Append(@, Call("connect", FALSE))])]
       \/ /\ run[r].pc = "y_fetching"
          /\ \E list_ok \in BOOLEAN, fault \in {"email_exists", "complete_sync_session"} :
               LET all_uids == fetch_uids(mailbox, run[r].days, list_ok)
                   unseen == newest_first(new_uids_of(emails, all_uids))
                   listed == [run[r] EXCEPT !.calls = Append(@, Call("fetch_uids", all_uids))]
                   checked == [listed EXCEPT !.calls = Append(@, Call("email_exists", all_uids)),
                                             !.existing_count = Len(all_uids) - Len(unseen)]
               IN /\ fault = "email_exists" => all_uids # <<>>
                  /\ fault = "complete_sync_session" => unseen = <<>>
                  /\ run' = [run EXCEPT ![r] =
                        fail_raises(finally(IF fault = "email_exists" THEN listed ELSE checked))]
          /\ sync_history' = sync_history
       \/ /\ run[r].pc = "batch"
          /\ run[r].i >= run[r].total
          /\ run' = [run EXCEPT ![r] = fail_raises(finally(run[r]))]
          /\ sync_history' = sync_history
    /\ UNCHANGED <<email_configured, ai_mode, api_key, mailbox, emails, cls, config>>

\* sync: fail_sync_session raises at line 296 (connect failed), or at line
\* 355 after email_exists or complete_sync_session raised
SyncFailSessionRaises(r) ==
    /\ CanRun(r)
    /\ \/ /\ run[r].pc = "idle"
          /\ InOrder(r)
          /\ email_configured
          /\ LET strategy == Strategy(is_first_sync(sync_history))
                 h == create_sync_session(sync_history, strategy.sync_type, strategy.days)
             IN /\ sync_history' = h
                /\ run' = [run EXCEPT ![r] =
                      fail_raises([@ EXCEPT !.kind = "sync",
                                            !.sync_type = strategy.sync_type,
                                            !.days = strategy.days,
                                            !.batch_size = strategy.batch_size,
                                            !.max_emails = MaxEmailsPerSync,
                                            !.session_id = Len(h),
                                            !.calls = Append(@, Call("connect", FALSE))])]
       \/ /\ run[r].kind = "sync"
          /\ run[r].pc = "s_listing"
          /\ LET all_uids == fetch_uids(mailbox, run[r].days, TRUE)
             IN /\ all_uids # <<>>
                /\ run' = [run EXCEPT ![r] =
                      fail_raises(finally([@ EXCEPT !.calls =
                                              Append(@, Call("fetch_uids", all_uids))]))]
          /\ sync_history' = sync_history
       \/ /\ run[r].kind = "sync"
          /\ run[r].pc = "s_batch"
          /\ run[r].i >= Len(run[r].new_uids)
          /\ run' = [run EXCEPT ![r] = fail_raises(finally(run[r]))]
          /\ sync_history' = sync_history
    /\ UNCHANGED <<email_configured, ai_mode, api_key, mailbox, emails, cls, config>>

\* the requests one after the other over a store that only they change,
\* every store call of the handlers being able to raise
NextFaults ==
    \E r \in Runs :
        \/ (Alone(r) /\ StreamStart(r)) \/ (Alone(r) /\ SyncStart(r)) \/ Step(r)
        \/ StreamFailSessionRaises(r)
        \/ (Alone(r) /\ SyncFailSessionRaises(r))

SpecFaults == Init /\ [][NextFaults]_vars


(***************************************************************************)
(* Properties of the classification policy (SpecPolicy)                    *)
(***************************************************************************)
Classified == cls # <<>>
Tier == cls[1].privacy_result.level
CloudCalls == {"openai.classify", "openai.tags", "openai.summary"}
LocalCalls == {"ollama.classify", "ollama.tags", "ollama.summary"}

\* C1: a message whose privacy scan yields EXTREME is classified by the
\* rule-based processor (ai_model is the rule-based tag) and its summary is
\* the fixed "AI disabled" marker, for every configured mode and with or
\* without an API credential.
C1_ExtremeIsRuleBased ==
    (Classified /\ Tier = "extreme") =>
        /\ cls[1].email.ai_model = TagRuleBased
        /\ cls[1].email.summary = AI_DISABLED

C1_Witness ==
    /\ Classified /\ Tier = "extreme"
    /\ ai_mode = "api" /\ api_key
    /\ cls[1].msg.len > 500
    /\ cls[1].email.ai_model = TagRuleBased

\* C2: a message whose privacy scan yields HIGH is classified by the
\* local-model processor (local tag, ai_mode LOCAL), for every configured
\* mode and with or without an API credential.
C2_HighIsLocal ==
    (Classified /\ Tier = "high") =>
        /\ cls[1].email.ai_model = TagLocal
        /\ cls[1].email.ai_mode = "local"

C2_Witness ==
    /\ Classified /\ Tier = "high"
    /\ ai_mode = "hybrid" /\ api_key
    /\ cls[1].msg.len > 500
    /\ cls[1].email.ai_mode = "local"

\* C3: classifying an EXTREME or HIGH message never calls the cloud
\* endpoint, classifying an EXTREME message calls no model endpoint at all,
\* and the set of endpoint calls is the same under every other configured
\* mode and credential.
C3_NoCloudCallWhenSensitive ==
    (Classified /\ Tier \in {"extreme", "high"}) =>
        /\ cls[1].calls \cap CloudCalls = {}
        /\ Tier = "extreme" => cls[1].calls = {}
        /\ \A mode \in AIMode, key \in BOOLEAN :
             process_email(1, cls[1].msg, mode, key, cls[1].env).calls = cls[1].calls

C3_Witness ==
    /\ Classified /\ Tier = "high"
    /\ ai_mode = "api" /\ api_key
    /\ cls[1].msg.len > 500
    /\ cls[1].calls = LocalCalls

\* the processor that the decision table selects for a NORMAL message
Chosen(mode, key) ==
    IF mode = "local" THEN "local"
    ELSE IF mode = "api" THEN (IF key THEN "api" ELSE "local")
    ELSE "hybrid"

\* C4: a NORMAL message is classified by the processor of the configured
\* mode: LOCAL the local-model processor, API the cloud processor with a
\* credential and the local-model processor without, HYBRID the hybrid
\* processor; the choice is a function of the mode and the credential alone
\* (Chosen), whatever the text of the message and the endpoints' answers.
C4_NormalFollowsMode ==
    (Classified /\ Tier = "normal") =>
        /\ cls[1].email.ai_mode = Chosen(ai_mode, api_key)
        /\ cls[1].email.ai_mode = "local" =>
             cls[1].email.ai_model = TagLocal /\ cls[1].calls \subseteq LocalCalls
        /\ cls[1].email.ai_mode = "api" =>
             cls[1].email.ai_model = TagApi /\ cls[1].calls \subseteq CloudCalls
        /\ cls[1].email.ai_mode = "hybrid" =>
             cls[1].email.ai_model \in {TagHybridApi, TagHybridLocal}

C4_Witness ==
    /\ Classified /\ Tier = "normal"
    /\ ai_mode = "api" /\ ~api_key
    /\ cls[1].email.ai_mode = "local"


(***************************************************************************)
(* Properties of the sync runs                                             *)
(***************************************************************************)
InProgress == {k \in DOMAIN sync_history : sync_history[k].status = "in_progress"}
Terminal(e) == e.event \in {"complete", "error"}
Ops(r) == {run[r].calls[k].op : k \in DOMAIN run[r].calls}
ConnectFailed(r) == run[r].calls # <<>> /\ run[r].calls[1] = Call("connect", FALSE)
ConnectSucceeded(r) == run[r].calls # <<>> /\ run[r].calls[1] = Call("connect", TRUE)

\* C5: the status of a session row changes only from in_progress to
\* completed or from in_progress to failed; a completed or failed session
\* never changes its status again, and no row disappears.
C5_StatusTransitions ==
    [][\A k \in DOMAIN sync_history :
         /\ k \in DOMAIN sync_history'
         /\ sync_history'[k].status # sync_history[k].status =>
              /\ sync_history[k].status = "in_progress"
              /\ sync_history'[k].status \in {"completed", "failed"}]_vars

C5_Witness ==
    /\ Len(sync_history) = 2
    /\ sync_history[1].status = "failed"
    /\ sync_history[2].status = "completed"

\* C6: at every moment at most one session has status in_progress, also
\* when two sync requests are in flight at the same time.
C6_AtMostOneInProgress == Cardinality(InProgress) <= 1

C9_DisconnectOnEveryExit ==
    \A r \in Runs :
        (run[r].session_id # 0 /\ run[r].pc \in EndPCs) => "disconnect" \in Ops(r)

\* C9 amended: every run whose connect succeeded has called disconnect as
\* its last gateway call when it ends, and holds no connection then; a run
\* whose connect failed ends without calling disconnect.
C9_DisconnectAfterConnect ==
    \A r \in Runs :
        /\ (ConnectSucceeded(r) /\ run[r].pc \in EndPCs) =>
              /\ run[r].calls[Len(run[r].calls)].op = "disconnect"
              /\ ~run[r].connected
        /\ ConnectFailed(r) => "disconnect" \notin Ops(r) /\ ~run[r].connected

C9_Witness ==
    \E r \in Runs :
        /\ run[r].kind = "stream" /\ run[r].pc = "closed"
        /\ run[r].synced_count > 0
        /\ sync_history[run[r].session_id].status = "in_progress"
        /\ run[r].calls[Len(run[r].calls)].op = "disconnect"

\* C10: when a run filters its candidates, no identifier that the store
\* holds at that moment is put into the unseen list handed to the batch
\* loop, whatever the day window and the number of candidates.
C10_NoPersistedIdInUnseen ==
    [][\A r \in Runs :
         (run[r].pc \in {"y_fetching", "s_listing"} /\ run'[r].pc \notin {"y_fetching", "s_listing"}) =>
             \A k \in DOMAIN run'[r].new_uids : run'[r].new_uids[k] \notin DOMAIN emails]_vars

C10_Witness ==
    \E r \in Runs :
        /\ run[r].existing_count > 0
        /\ run[r].new_uids # <<>>
        /\ run[r].days = 90

\* the uids of the day window of run r that the store does not hold
UnseenInWindow(r) ==
    {u \in Range(mailbox) : Age(u) <= run[r].days /\ u \notin DOMAIN emails}
\* the n newest (largest) uids of the set U
NewestOf(U, n) == {u \in U : Cardinality({v \in U : v > u}) < n}
Descending(s) == \A k \in 1..(Len(s) - 1) : s[k] > s[k + 1]
Ascending(s) == \A k \in 1..(Len(s) - 1) : s[k] < s[k + 1]
\* the result of the fetch_uids call of run r (the second call of a run)
Listing(r) == IF Len(run[r].calls) >= 2 THEN run[r].calls[2].arg ELSE <<>>
FetchCalls(r) == SelectSeq(run[r].calls, LAMBDA c : c.op = "fetch_by_uids")

\* C11 as stated: the identifiers retained by a sync-stream run are exactly
\* the newest max_emails_per_sync unseen identifiers of its window, and the
\* messages are processed newest first (every fetched batch is handed to
\* the message loop in descending order).
C11_ProcessedNewestFirst ==
    [][\A r \in Runs :
         run'[r].kind = "stream" =>
             /\ (run[r].pc = "y_fetching" /\ run'[r].pc = "y_found") =>
                   /\ Range(run'[r].new_uids) = NewestOf(UnseenInWindow(r), run[r].max_emails)
                   /\ Descending(run'[r].new_uids)
             /\ Descending(run'[r].batch_emails)]_vars

\* C11 amended: the retained identifiers are exactly the newest
\* max_emails_per_sync unseen identifiers, held and requested newest first
\* batch by batch; inside one batch the messages are processed in the order
\* the gateway returns them, which is oldest first.
C11_RetainedNewestBatchesNewestFirst ==
    [][\A r \in Runs :
         run'[r].kind = "stream" =>
             /\ (run[r].pc = "y_fetching" /\ run'[r].pc = "y_found") =>
                   /\ Range(run'[r].new_uids) = NewestOf(UnseenInWindow(r), run[r].max_emails)
                   /\ Descending(run'[r].new_uids)
                   /\ Len(run'[r].new_uids) = Min(Cardinality(UnseenInWindow(r)), run[r].max_emails)
             /\ \A k \in 1..(Len(run'[r].calls) - 1) :
                   (run'[r].calls[k].op = "fetch_by_uids"
                      /\ run'[r].calls[k + 1].op = "fetch_by_uids")
                   => run'[r].calls[k].arg[1] > run'[r].calls[k + 1].arg[1]
             /\ \A k \in DOMAIN run'[r].calls :
                   run'[r].calls[k].op = "fetch_by_uids" => Descending(run'[r].calls[k].arg)
             /\ Ascending(run'[r].batch_emails)]_vars

C11_Witness ==
    \E r \in Runs :
        /\ run[r].kind = "stream"
        /\ Len(Listing(r)) - run[r].existing_count > run[r].max_emails
        /\ run[r].total = run[r].max_emails
        /\ Len(run[r].batch_emails) >= 2
        /\ run[r].batch_emails[1] < run[r].batch_emails[2]
        /\ run[r].new_uids[1] = Len(mailbox)

\* the uids of the batches of run r whose fetch raised, the uids of the
\* other batches, and the uids asked for in some batch fetch
SkippedUids(r) ==
    UNION {Range(run[r].calls[k].arg) :
             k \in {n \in DOMAIN run[r].calls : run[r].calls[n].op = "raised"}}
FetchedUids(r) == Range(run[r].new_uids) \ SkippedUids(r)
RequestedUids(r) ==
    UNION {Range(run[r].calls[k].arg) :
             k \in {n \in DOMAIN run[r].calls : run[r].calls[n].op = "fetch_by_uids"}}
SavedUids(r) ==
    {run[r].calls[k].arg :
       k \in {n \in DOMAIN run[r].calls : run[r].calls[n].op = "save_email"}}
\* the per-message progress events of run r, in the order of emission
PerMessage(r) ==
    SelectSeq(run[r].events, LAMBDA e : e.event = "progress" /\ e.current > 0)
\* the number of messages whose processing or saving raised
MsgFailures(r) ==
    LET PM == PerMessage(r)
    IN Cardinality({k \in DOMAIN PM :
                      PM[k].synced = IF k = 1 THEN 0 ELSE PM[k - 1].synced})
LastEvent(r) == run[r].events[Len(run[r].events)]
Completed(r) == run[r].events # <<>> /\ LastEvent(r).event = "complete"

\* C12: when the content fetch of a whole batch raises, the batch is
\* skipped and is not an error of the run; every other batch is still
\* requested and its messages processed, the session ends completed, and
\* the final synced and processed counts count only the messages of the
\* batches whose fetch succeeded.
C12_BatchFetchFailureIsSkipped ==
    \A r \in Runs :
        (run[r].kind = "stream" /\ SkippedUids(r) # {}) =>
            /\ run[r].error \in {None, "complete_sync_session"}
            /\ Completed(r) =>
                 LET fetched == FetchedUids(r)
                     saved == SavedUids(r)
                 IN
                 /\ RequestedUids(r) = Range(run[r].new_uids)
                 /\ Len(PerMessage(r)) = Cardinality(fetched)
                 /\ saved \subseteq fetched
                 /\ LastEvent(r).synced = Cardinality(fetched) - MsgFailures(r)
                 /\ LastEvent(r).synced = Cardinality(saved)
                 /\ LastEvent(r).processed = LastEvent(r).synced
                 /\ sync_history[run[r].session_id].status = "completed"
                 /\ sync_history[run[r].session_id].emails_synced = LastEvent(r).synced
                 /\ sync_history[run[r].session_id].emails_processed = LastEvent(r).processed

C12_Witness ==
    \E r \in Runs :
        /\ run[r].kind = "stream" /\ run[r].pc = "done" /\ Completed(r)
        /\ \E k, n \in DOMAIN run[r].calls :
             /\ k < n
             /\ run[r].calls[k].op = "raised"
             /\ run[r].calls[n].op = "save_email"
        /\ LastEvent(r).synced = 1
        /\ run[r].total = 2

SecondRunFilters ==
    /\ run["r1"].pc \in EndPCs
    /\ run["r2"].kind = "stream"
    /\ run["r2"].pc = "y_fetching"
    /\ run'["r2"].pc \in {"y_complete", "y_found"}
\* no message has arrived since the first run listed, and no record of the
\* first run has been deleted
NoNewMailSinceFirstRun ==
    Len(mailbox) = MaxUid - 1 \/ MaxUid \in Range(Listing("r1"))
NoDeleteSinceFirstRun == DOMAIN emails = SavedUids("r1")
\* the first run completed and persisted every identifier of its window,
\* and its window covers the window of the second run
FirstRunPersistedAll ==
    /\ Completed("r1")
    /\ Listing("r1") = fetch_uids(mailbox, run["r1"].days, TRUE)
    /\ Range(Listing("r1")) \subseteq SavedUids("r1")
    /\ run["r2"].days <= run["r1"].days

\* C14 as stated: with no new mailbox content (and no deletion) between two
\* runs in sequence, the second session is completed with synced = 0 and
\* processed = 0, whatever the outcome of the first run.
C14_SecondRunSyncsNothing ==
    [][(SecondRunFilters /\ NoNewMailSinceFirstRun /\ NoDeleteSinceFirstRun) =>
          /\ run'["r2"].pc = "y_complete"
          /\ sync_history'[run["r2"].session_id].status = "completed"
          /\ sync_history'[run["r2"].session_id].emails_synced = 0
          /\ sync_history'[run["r2"].session_id].emails_processed = 0]_vars

\* C14 amended: the second session is completed with synced = 0 and
\* processed = 0 when the first run completed having persisted every
\* identifier of a window that covers the second run's window; whatever
\* the first run left unpersisted is what the second run retains.
C14_SecondRunAfterFullFirstRun ==
    [][(SecondRunFilters /\ NoNewMailSinceFirstRun /\ NoDeleteSinceFirstRun) =>
          /\ FirstRunPersistedAll =>
                /\ run'["r2"].pc = "y_complete"
                /\ run'["r2"].events[Len(run'["r2"].events)] = Ev("complete", 0, 0, 0, 0)
                /\ sync_history'[run["r2"].session_id].status = "completed"
                /\ sync_history'[run["r2"].session_id].emails_synced = 0
                /\ sync_history'[run["r2"].session_id].emails_processed = 0
          /\ Range(run'["r2"].new_uids) \cap SavedUids("r1") = {}
          /\ run'["r2"].pc = "y_found" =>
                \E u \in Range(mailbox) : Age(u) <= run["r2"].days /\ u \notin SavedUids("r1")]_vars

C14_Witness ==
    /\ run["r1"].pc = "done" /\ Completed("r1")
    /\ LastEvent("r1").synced = MaxUid - 1
    /\ Len(mailbox) = MaxUid - 1
    /\ run["r2"].kind = "stream" /\ run["r2"].pc = "done" /\ Completed("r2")
    /\ run["r2"].existing_count = MaxUid - 1
    /\ sync_history[2].status = "completed"
    /\ sync_history[2].emails_synced = 0

\* the current indices of the per-message progress events of run r
Currents(r) ==
    LET PM == PerMessage(r) IN {PM[k].current : k \in DOMAIN PM}
\* the positions of the retained list that lie in a batch whose fetch did
\* not raise
FetchedPositions(r) ==
    LET skipped == SkippedUids(r)
    IN {p \in 1..run[r].total : run[r].new_uids[p] \notin skipped}
OneTerminalEventLast(r) ==
    /\ Cardinality({k \in DOMAIN run[r].events : Terminal(run[r].events[k])}) = 1
    /\ Terminal(LastEvent(r))

SomeCompletedSession ==
    \E k \in DOMAIN sync_history : sync_history[k].status = "completed"

\* C16: a sync-stream run takes the first-sync profile exactly when the
\* history holds no completed session at its start or force_first is set,
\* and the incremental profile otherwise, whatever sessions are in_progress
\* or failed; the session row created for the run records the chosen type
\* and keeps it.
C16_ProfileByCompletedHistory ==
    [][\A r \in Runs :
         /\ (run[r].pc = "idle" /\ run'[r].pc = "y_connecting") =>
               \A request_days \in RequestDays, force_first \in BOOLEAN :
                   StreamStartWith(r, request_days, force_first) =>
                       LET first == ~SomeCompletedSession \/ force_first IN
                       /\ run'[r].sync_type =
                              IF first THEN "first_sync" ELSE "incremental_sync"
                       /\ run'[r].batch_size =
                              IF first THEN FirstSyncBatchSize ELSE IncrementalSyncBatchSize
                       /\ run'[r].delay_ms =
                              IF first THEN FirstSyncDelayMs ELSE IncrementalSyncDelayMs
         /\ (run[r].kind = "stream" /\ run[r].pc = "y_connecting"
               /\ run'[r].pc \in {"y_fetching", "y_error_pre"}) =>
               /\ run'[r].session_id = Len(sync_history) + 1
               /\ Len(sync_history') = Len(sync_history) + 1
               /\ sync_history'[run'[r].session_id].sync_type = run[r].sync_type
         /\ (run[r].kind = "stream" /\ run[r].session_id # 0) =>
               /\ run'[r].sync_type = run[r].sync_type
               /\ sync_history'[run[r].session_id].sync_type = run[r].sync_type]_vars

C16_Witness ==
    /\ Len(sync_history) = 2
    /\ sync_history[1].status = "completed"
    /\ run["r2"].kind = "stream"
    /\ run["r2"].sync_type = "incremental_sync"
    /\ run["r2"].batch_size = IncrementalSyncBatchSize
    /\ sync_history[2].sync_type = "incremental_sync"

\* C17: the day window of a sync-stream run is the larger of the
\* requested days and the days of the selected profile, for both profiles
\* and every requested value; it is never smaller than the profile's days.
\* The session row records that window and the identifiers are listed
\* over it.
C17_WindowIsMaxOfRequestAndProfile ==
    [][\A r \in Runs :
         /\ (run[r].pc = "idle" /\ run'[r].pc = "y_connecting") =>
               \A request_days \in RequestDays, force_first \in BOOLEAN :
                   StreamStartWith(r, request_days, force_first) =>
                       LET profile_days ==
                               IF ~SomeCompletedSession \/ force_first
                               THEN FirstSyncDays ELSE IncrementalSyncDays
                       IN /\ run'[r].days =
                               IF request_days >= profile_days
                               THEN request_days ELSE profile_days
                          /\ run'[r].days >= profile_days
                          /\ run'[r].days >= request_days
         /\ (run[r].kind = "stream" /\ run[r].pc = "y_connecting"
               /\ run'[r].pc \in {"y_fetching", "y_error_pre"}) =>
               sync_history'[run'[r].session_id].days_range = run[r].days
         /\ (run[r].kind = "stream" /\ run[r].pc = "y_fetching"
               /\ run'[r].pc \in {"y_complete", "y_found", "y_error"}) =>
               /\ run'[r].calls[Len(run[r].calls) + 1].op = "fetch_uids"
               /\ Range(run'[r].calls[Len(run[r].calls) + 1].arg)
                     \in {{}, {u \in Range(mailbox) : Age(u) <= run[r].days}}
         /\ (run[r].kind = "stream" /\ run[r].session_id # 0) =>
               /\ run'[r].days = run[r].days
               /\ sync_history'[run[r].session_id].days_range = run[r].days]_vars

C17_Witness ==
    \E r \in Runs :
        /\ run[r].kind = "stream" /\ run[r].session_id # 0
        /\ run[r].sync_type = "first_sync"
        /\ run[r].days = FirstSyncDays
        /\ sync_history[run[r].session_id].days_range = FirstSyncDays
        /\ 1 \in Range(Listing(r))
        /\ run["r2"].days = 90
        /\ run["r2"].sync_type = "incremental_sync"

\* an exception was caught by the except block of the try statement of
\* run r; run[r].error is its text, which the error event carries
CaughtInTry(r) == run[r].error \in {"email_exists", "complete_sync_session"}

C19_SaveIsUpsertById ==
    cls # <<>> =>
        LET rec == cls[1].email
            before == cls[1].before
        IN /\ DOMAIN emails = DOMAIN before \cup {rec.id}
           /\ \A x \in DOMAIN emails : emails[x].id = x
           /\ emails[rec.id] = rec
           /\ \A x \in DOMAIN before \ {rec.id} : emails[x] = before[x]
           /\ save_email(emails, rec) = emails
           /\ save_email(save_email(before, rec), rec) = save_email(before, rec)

C19_Witness ==
    /\ cls # <<>>
    /\ cls[1].email.id \in DOMAIN cls[1].before
    /\ cls[1].before[cls[1].email.id] # cls[1].email
    /\ emails[cls[1].email.id] = cls[1].email
    /\ Cardinality(DOMAIN emails) = MaxUid


(***************************************************************************)
(* Properties of the deadline extraction (SpecDeadline)                    *)
(***************************************************************************)
\* a fragment that denotes a calendar date: a month and day without a year
\* is one when some year has that day
IsDate(f) ==
    CASE f.kind = "iso" -> valid_date(f.g1, f.g2, f.g3)
      [] f.kind = "chinese" -> valid_date(2028, f.g1, f.g2)
      [] f.kind = "dmy" -> valid_date(f.g3, f.g2, f.g1)
      [] f.kind = "mdy" -> valid_date(f.g3, f.g1, f.g2)
      [] OTHER -> valid_date(IF f.g3 # 0 THEN f.g3 ELSE 2028, f.g2, f.g1)
Dates(text) == SelectSeq(text, IsDate)

\* C20 as stated: for a text whose only date is ISO-like the extraction
\* returns that date, and for a text whose only date is a month and day
\* without a year it returns that month and day in the current year.
C20_OnlyDateIsReturned ==
    cls # <<>> =>
        LET d == Dates(cls[1].text) IN
        /\ (Len(d) = 1 /\ d[1].kind = "iso") =>
              cls[1].deadline = <<(<<d[1].g1, d[1].g2, d[1].g3>>)>>
        /\ (Len(d) = 1 /\ d[1].kind = "chinese") =>
              cls[1].deadline = <<(<<cls[1].now_year, d[1].g1, d[1].g2>>)>>

\* C20 amended: when the first ISO-like group of the text is a calendar
\* date the extraction returns it; for a text without an ISO-like group it
\* returns the month and day of the first month-day pattern in the current
\* year when that day exists in the current year.  A first match that is
\* not a calendar date (2026-13-01, or 2月29日 in a common year) is not
\* returned and hides the later matches of the same pattern.
C20_FirstMatchIsReturned ==
    cls # <<>> =>
        LET text == cls[1].text
            now_year == cls[1].now_year
            iso == SelectSeq(text, LAMBDA f : f.kind = "iso")
            chinese == SelectSeq(text, LAMBDA f : f.kind = "chinese")
        IN /\ (iso # <<>> /\ iso[1].g2 \in 1..12
                 /\ iso[1].g3 \in 1..days_in_month(iso[1].g1, iso[1].g2)) =>
                 cls[1].deadline = <<(<<iso[1].g1, iso[1].g2, iso[1].g3>>)>>
           /\ (iso = <<>> /\ chinese # <<>>
                 /\ chinese[1].g2 <= days_in_month(now_year, chinese[1].g1)) =>
                 cls[1].deadline = <<(<<now_year, chinese[1].g1, chinese[1].g2>>)>>
           /\ (chinese = text /\ chinese # <<>>
                 /\ chinese[1].g2 > days_in_month(now_year, chinese[1].g1)) =>
                 cls[1].deadline = <<>>
           /\ (iso = text /\ iso # <<>> /\ iso[1].g2 > 12) =>
                 cls[1].deadline = <<>>

C20_Witness ==
    /\ cls # <<>>
    /\ cls[1].text = <<Frag("chinese", 3, 1, 0)>>
    /\ cls[1].now_year = 2027
    /\ cls[1].deadline = <<(<<2027, 3, 1>>)>>

(***************************************************************************)
(* Properties of the sync runs over a store whose calls all can raise      *)
(* (SpecFaults)                                                            *)
(***************************************************************************)
\* the phase a gateway or store call belongs to
PhaseOf(op) ==
    CASE op = "connect" -> 0
      [] op = "fetch_uids" -> 1
      [] op = "email_exists" -> 2
      [] op \in {"fetch_by_uids", "raised", "save_email"} -> 3
      [] OTHER -> 4
\* the calls of run r are made phase after phase
PhasesInOrder(r) ==
    \A k \in 1..(Len(run[r].calls) - 1) :
        PhaseOf(run[r].calls[k].op) <= PhaseOf(run[r].calls[k + 1].op)
\* run r created a session and was driven to its end
DrivenToEnd(r) == run[r].session_id # 0 /\ run[r].pc = "done"
SessionOf(r) == sync_history[run[r].session_id]

ListingFailed(r) ==
    /\ Len(run[r].calls) >= 2
    /\ run[r].calls[2] = Call("fetch_uids", <<>>)
    /\ \E u \in Range(mailbox) : Age(u) <= run[r].days

\* C22: when listing the identifiers fails at the gateway after a
\* successful connect, the session of the run is never marked completed and
\* no complete event is emitted; a run driven to its end has marked the
\* session failed and emitted a terminal error event.
C22_ListingFailureIsSurfaced ==
    \A r \in Runs :
        ListingFailed(r) =>
            /\ SessionOf(r).status # "completed"
            /\ ~Completed(r)
            /\ run[r].pc = "done" =>
                 /\ SessionOf(r).status = "failed"
                 /\ LastEvent(r).event = "error"

\* run r passes from listing and filtering to the batch loop (or to the
\* empty case) in this step
Filters(r) ==
    /\ run[r].pc \in {"y_fetching", "s_listing"}
    /\ run'[r].pc \in {"y_found", "y_complete", "s_batch"}
\* run r makes a content fetch in this step
Fetches(r) ==
    /\ Len(run'[r].calls) > Len(run[r].calls)
    /\ run'[r].calls[Len(run[r].calls) + 1].op = "fetch_by_uids"

\* C23: in a sync run the existence check has been made for every candidate
\* identifier of the listing before the first content fetch, and every
\* content fetch requests only identifiers that the check reported as
\* unseen (identifiers of the listing that the store did not hold when the
\* check was made).
C23_ExistenceCheckBeforeFetch ==
    [][\A r \in Runs :
         /\ Filters(r) =>
               LET n == Len(run'[r].calls) IN
               /\ run'[r].calls[n - 1].op = "fetch_uids"
               /\ run'[r].calls[n].op = "email_exists"
               /\ run'[r].calls[n].arg = run'[r].calls[n - 1].arg
               /\ Range(run'[r].new_uids) \subseteq
                     {u \in Range(run'[r].calls[n].arg) : u \notin DOMAIN emails}
               /\ run'[r].existing_count =
                     Cardinality(Range(run'[r].calls[n].arg) \cap DOMAIN emails)
               /\ \A k \in 1..n : run'[r].calls[k].op # "fetch_by_uids"
         /\ Fetches(r) =>
               /\ "email_exists" \in Ops(r)
               /\ run'[r].calls[Len(run[r].calls) + 1].arg # <<>>
               /\ Range(run'[r].calls[Len(run[r].calls) + 1].arg)
                     \subseteq Range(run[r].new_uids)
         /\ run[r].pc \notin {"idle", "y_connecting", "y_fetching", "s_listing"} =>
               run'[r].new_uids = run[r].new_uids]_vars

C23_Witness ==
    \E r \in Runs :
        /\ run[r].kind = "sync"
        /\ run[r].existing_count > 0
        /\ Len(run[r].calls) >= 4
        /\ run[r].calls[3].op = "email_exists"
        /\ Len(run[r].calls[3].arg) > run[r].existing_count
        /\ run[r].calls[4].op = "fetch_by_uids"
        /\ Range(run[r].calls[4].arg) \cap DOMAIN emails = {}

\* C24: in a sync-stream run with a positive configured delay the run
\* sleeps the inter-batch delay between every two consecutive batch fetch
\* attempts (every fetch attempt but the first starts from the sleep),
\* whether the earlier fetch succeeded or raised, and it never sleeps after
\* the last batch.
C24_SleepBetweenFetchAttempts ==
    [][\A r \in Runs :
         (run[r].kind = "stream" /\ run[r].delay_ms > 0) =>
             /\ (Fetches(r) /\ "fetch_by_uids" \in Ops(r)) => run[r].pc = "sleep_delay"
             /\ run'[r].pc = "sleep_delay" => run'[r].i < run'[r].total]_vars

\* run r handles one message of its batch in this step, and the step
\* persists nothing: process_email or save_email raised
MessageStep(r) ==
    /\ run[r].pc \in {"msg", "y_progress", "s_msg"}
    /\ run'[r].j = run[r].j + 1
MessageFails(r) == MessageStep(r) /\ Len(run'[r].calls) = Len(run[r].calls)
\* run r leaves the message loop of a batch in this step
LeavesBatch(r) ==
    /\ run[r].pc \in {"msg", "y_progress", "s_msg"}
    /\ run'[r].pc \in {"batch", "sleep_delay", "s_batch"}
\* some message of a fetched batch of the ended run r was not persisted
SomeMessageFailed(r) ==
    /\ run[r].pc = "done" /\ ConnectSucceeded(r)
    /\ Cardinality(SavedUids(r)) < Cardinality(FetchedUids(r))

\* C25: when processing or persisting one message raises inside the batch
\* loop, neither counter is incremented and nothing is stored for it, a
\* progress event is still emitted for it (sync-stream), and the run goes
\* on: the batch is left only after its last message, every later batch is
\* requested, and with no other call raising the session ends completed
\* with the counts of the messages that did not fail.
C25_MessageFailureIsSkipped ==
    [][\A r \in Runs :
         /\ MessageFails(r) =>
               /\ run'[r].synced_count = run[r].synced_count
               /\ run'[r].processed_count = run[r].processed_count
               /\ emails' = emails
               /\ run'[r].i = run[r].i
               /\ run'[r].error = None
               /\ run'[r].pc \in {"y_progress", "s_msg"}
               /\ sync_history' = sync_history
               /\ run[r].kind = "stream" =>
                     run'[r].events =
                         Append(run[r].events,
                                [event |-> "progress", total |-> run[r].total,
                                 current |-> run[r].i + run[r].j + 1,
                                 synced |-> run[r].synced_count,
                                 processed |-> run[r].processed_count])
         /\ LeavesBatch(r) => run[r].j = Len(run[r].batch_emails)
         /\ (SomeMessageFailed(r))' =>
               /\ (RequestedUids(r))' = Range(run'[r].new_uids)
               /\ run'[r].synced_count = Cardinality((SavedUids(r))')
               /\ run'[r].error = None =>
                     /\ (Completed(r))'
                     /\ sync_history'[run'[r].session_id].status = "completed"
                     /\ sync_history'[run'[r].session_id].emails_synced = run'[r].synced_count
                     /\ sync_history'[run'[r].session_id].emails_processed =
                            run'[r].processed_count]_vars

C25_Witness ==
    \E r \in Runs :
        /\ SomeMessageFailed(r)
        /\ run[r].kind = "stream" /\ Completed(r)
        /\ run[r].total = 2
        /\ SkippedUids(r) = {}
        /\ PerMessage(r)[1].synced = 0
        /\ PerMessage(r)[2].synced = 1
        /\ SessionOf(r).emails_synced = 1

\* the session of run r is marked failed in this step, after the run
\* created it in an earlier step
SessionFails(r) ==
    /\ run[r].session_id # 0
    /\ SessionOf(r).status = "in_progress"
    /\ sync_history'[run[r].session_id].status = "failed"

\* C26: when a sync run ends failed by an exception after it persisted
\* messages, the failure removes or alters no stored message: the store is
\* the same before and after the failing step, and it holds every message
\* the run persisted, each as the run saved it.
C26_FailureKeepsPersisted ==
    [][\A r \in Runs :
         SessionFails(r) =>
             /\ emails' = emails
             /\ SavedUids(r) \subseteq DOMAIN emails'
             /\ Cardinality(SavedUids(r)) = run[r].synced_count
             /\ \A u \in SavedUids(r) :
                  \E env \in SyncEnvs :
                      emails'[u] = process_email(u, Content(u), ai_mode, api_key, env).email]_vars

C26_Witness ==
    \E r \in Runs :
        /\ run[r].pc = "done"
        /\ run[r].error = "complete_sync_session"
        /\ SessionOf(r).status = "failed"
        /\ run[r].synced_count = 2
        /\ Cardinality(SavedUids(r)) = 2
        /\ SavedUids(r) \subseteq DOMAIN emails

\* C27: a session that ends failed after some messages were persisted keeps
\* its partial counts: the synced and processed counts of the failed session
\* row are the numbers of messages the run had synced and processed before
\* the failure.
C27_FailedSessionKeepsCounts ==
    \A r \in Runs :
        (run[r].session_id # 0 /\ SessionOf(r).status = "failed") =>
            /\ SessionOf(r).emails_synced = run[r].synced_count
            /\ SessionOf(r).emails_processed = run[r].processed_count

(***************************************************************************)
(* Further properties of the classification policy (SpecPolicy)            *)
(***************************************************************************)
\* the endpoint call of the priority sub-task of the classification failed
ClassifyCallFailed ==
    /\ Classified
    /\ \/ "ollama.classify" \in cls[1].calls /\ ~cls[1].env.local_up
       \/ "openai.classify" \in cls[1].calls /\ ~cls[1].env.api_up

\* C28: when the endpoint call of the priority sub-task fails in the
\* local-model, cloud or hybrid processor, the priority of the result is the
\* priority the rule-based processor assigns to the same text, and the tags
\* and (for a body of more than 100 characters) the summary are still asked
\* of the model endpoint.
C28_PriorityFallbackIsRuleBased ==
    ClassifyCallFailed =>
        /\ cls[1].email.priority = rule_based_priority(cls[1].msg.kw)
        /\ cls[1].calls \cap {"ollama.tags", "openai.tags"} # {}
        /\ cls[1].msg.len > 100 =>
             cls[1].calls \cap {"ollama.summary", "openai.summary"} # {}

(***************************************************************************)
(* Properties of the privacy scan (SpecScan)                               *)
(***************************************************************************)
\* the keywords of the list l that occur in the text
Matches(l, kw) == {k \in DOMAIN l : l[k] \in kw}
\* the first keyword of the list l that occurs in the text
First(l, kw) == l[CHOOSE k \in Matches(l, kw) : \A n \in Matches(l, kw) : k <= n]
NoDuplicates(s) == \A k, n \in DOMAIN s : k # n => s[k] # s[n]

\* C29: scan returns EXTREME exactly when an extreme keyword or a pattern
\* matches, HIGH exactly when none of those and a high keyword matches, and
\* NORMAL otherwise.  For EXTREME and HIGH one label is reported, that of
\* the first match in list order (keywords before patterns), and the later
\* categories have no influence on the result; for NORMAL the labels are
\* the distinct labels of the medium keywords that match, each once, in the
\* order of their first keyword.
C29_ScanTiersAndLabels ==
    cls # <<>> =>
        LET kw == cls[1].kw
            res == cls[1].privacy_result
            E == Matches(EXTREME_KEYWORDS, kw)
            P == Matches(SENSITIVE_PATTERNS, kw)
            H == Matches(HIGH_KEYWORDS, kw)
            M == Matches(MEDIUM_KEYWORDS, kw)
        IN /\ res.level = "extreme" <=> (E # {} \/ P # {})
           /\ res.level = "high" <=> (E = {} /\ P = {} /\ H # {})
           /\ res.level = "normal" <=> (E = {} /\ P = {} /\ H = {})
           /\ E # {} =>
                /\ res.matched_keywords = <<Label(First(EXTREME_KEYWORDS, kw))>>
                /\ res = scan(kw \ (Range(SENSITIVE_PATTERNS) \cup Range(HIGH_KEYWORDS)
                                      \cup Range(MEDIUM_KEYWORDS)))
           /\ (E = {} /\ P # {}) =>
                /\ res.matched_keywords = <<Label(First(SENSITIVE_PATTERNS, kw))>>
                /\ res = scan(kw \ (Range(HIGH_KEYWORDS) \cup Range(MEDIUM_KEYWORDS)))
           /\ res.level = "high" =>
                /\ res.matched_keywords = <<Label(First(HIGH_KEYWORDS, kw))>>
                /\ res = scan(kw \ Range(MEDIUM_KEYWORDS))
           /\ res.level = "normal" =>
                /\ NoDuplicates(res.matched_keywords)
                /\ Range(res.matched_keywords) = {Label(MEDIUM_KEYWORDS[k]) : k \in M}
                /\ \A a, b \in DOMAIN res.matched_keywords :
                     a < b =>
                        \E k \in M :
                            /\ Label(MEDIUM_KEYWORDS[k]) = res.matched_keywords[a]
                            /\ \A n \in M :
                                 Label(MEDIUM_KEYWORDS[n]) = res.matched_keywords[b] => k < n

C29_Witness ==
    /\ cls # <<>>
    /\ cls[1].kw = {"phone", "telephone", "address"}
    /\ cls[1].privacy_result.level = "normal"
    /\ cls[1].privacy_result.matched_keywords = <<"label phone number", "label address">>

(***************************************************************************)
(* Properties of the tag extraction (SpecTags)                             *)
(***************************************************************************)
\* C30: every Classified Result produced by any of the four processors
\* carries at most 4 tags and no tag name twice, whatever the model
\* endpoint returns.
C30_AtMostFourDistinctTags ==
    cls # <<>> =>
        /\ Len(cls[1].tags) <= 4
        /\ NoDuplicates(cls[1].tags)

(***************************************************************************)
(* The hybrid processor (SpecPolicy)                                       *)
(***************************************************************************)
\* the classification was made by the hybrid processor
ByHybrid == Classified /\ cls[1].email.ai_mode = "hybrid"

\* C31: in the hybrid processor the cloud summarizer is called exactly when
\* the body is longer than 500 characters and a cloud credential is
\* configured; otherwise no cloud call is made and the local summarizer is
\* called exactly when the body is longer than 100 characters, the summary
\* being empty for bodies of 100 characters or fewer; priority and tags are
\* asked of the local endpoint, never of the cloud endpoint.
C31_HybridSummaryThresholds ==
    ByHybrid =>
        LET len == cls[1].msg.len
            calls == cls[1].calls
            viaApi == len > 500 /\ api_key
        IN /\ "openai.summary" \in calls <=> viaApi
           /\ calls \cap CloudCalls \subseteq {"openai.summary"}
           /\ viaApi => "ollama.summary" \notin calls
           /\ ~viaApi =>
                /\ calls \cap CloudCalls = {}
                /\ "ollama.summary" \in calls <=> len > 100
           /\ len <= 100 =>
                /\ cls[1].email.summary = ""
                /\ calls \cap {"ollama.summary", "openai.summary"} = {}
           /\ {"ollama.classify", "ollama.tags"} \subseteq calls
           /\ cls[1].email.ai_model = IF viaApi THEN TagHybridApi ELSE TagHybridLocal

C31_Witness ==
    /\ ByHybrid
    /\ cls[1].msg.len = 501
    /\ ~api_key
    /\ cls[1].calls = LocalCalls
    /\ cls[1].email.summary = "local_summary"

(***************************************************************************)
(* The order of the deadline patterns (SpecDeadline)                       *)
(***************************************************************************)
\* the patterns in the order the claim gives
PatternOrder == <<"iso", "chinese", "dmy", "mdy", "dmy_eng">>
\* the positions of the text where the pattern matches
MatchesOf(kind, text) == {k \in DOMAIN text : text[k].kind = kind}
\* the match of the pattern in the text: its leftmost one
LeftmostOf(kind, text) ==
    text[CHOOSE k \in MatchesOf(kind, text) : \A n \in MatchesOf(kind, text) : k <= n]
\* year, month and day that the groups of a match denote
DateOf(f, now_year) ==
    CASE f.kind = "iso" -> <<f.g1, f.g2, f.g3>>
      [] f.kind = "chinese" -> <<now_year, f.g1, f.g2>>
      [] f.kind = "dmy" -> <<f.g3, f.g2, f.g1>>
      [] f.kind = "mdy" -> <<f.g3, f.g1, f.g2>>
      [] OTHER -> <<IF f.g3 # 0 THEN f.g3 ELSE now_year, f.g2, f.g1>>
IsCalendarDate(d) ==
    /\ d[1] \in 1..9999 /\ d[2] \in 1..12
    /\ d[3] \in 1..days_in_month(d[1], d[2])

\* C32: parse_deadline tries its patterns in the order ISO-like numeric,
\* month-day in Chinese, day/month/year, English "Month DD, YYYY", English
\* "DD Month [YYYY]" and returns the date of the first pattern in this
\* order whose match is a calendar date; a pattern whose match is not one
\* is skipped and the later patterns are still tried; the result is none
\* when no pattern yields a calendar date.
C32_FirstValidPatternWins ==
    cls # <<>> =>
        LET text == cls[1].text
            now_year == cls[1].now_year
            V == {p \in DOMAIN PatternOrder :
                    /\ MatchesOf(PatternOrder[p], text) # {}
                    /\ IsCalendarDate(DateOf(LeftmostOf(PatternOrder[p], text), now_year))}
        IN IF V = {} THEN cls[1].deadline = <<>>
           ELSE LET first == CHOOSE p \in V : \A q \in V : p <= q
                IN cls[1].deadline =
                       <<DateOf(LeftmostOf(PatternOrder[first], text), now_year)>>

C32_Witness ==
    /\ cls # <<>>
    /\ cls[1].text = <<Frag("dmy", 1, 3, 2026), Frag("iso", 2026, 13, 1)>>
    /\ cls[1].deadline = <<(<<2026, 3, 1>>)>>

(***************************************************************************)
(* Closing the event stream in the middle of a run (Spec)                  *)
(***************************************************************************)
\* the suspension points of the try statement before the terminal event
MidRunPCs == {"y_fetching", "y_found", "y_progress", "sleep_delay"}
\* the run was closed by its consumer in the middle
ClosedMidRun(r) ==
    /\ run[r].pc = "closed"
    /\ run[r].session_id # 0
    /\ LastEvent(r).event \notin {"complete", "error"}

\* C33: when the consumer closes the event stream in the middle of a run,
\* no content fetch and no persist is performed after the close, the
\* gateway is disconnected, no terminal event is produced, and the session
\* row stays in_progress.
C33_CloseMidRunStopsTheWork ==
    [][\A r \in Runs :
         /\ (run[r].pc \in MidRunPCs /\ StreamClose(r)) =>
               /\ ClosedMidRun(r)'
               /\ run'[r].events = run[r].events
               /\ run'[r].calls = Append(run[r].calls, Call("disconnect", <<>>))
               /\ emails' = emails
               /\ sync_history' = sync_history
         /\ ClosedMidRun(r) =>
               /\ run'[r] = run[r]
               /\ ~run[r].connected
               /\ sync_history'[run[r].session_id].status = "in_progress"]_vars

C33_Witness ==
    \E r \in Runs :
        /\ ClosedMidRun(r)
        /\ run[r].synced_count > 0
        /\ run[r].i + run[r].j < run[r].total
        /\ \E q \in Runs \ {r} : run[q].pc = "done" /\ run[q].synced_count > 0

(***************************************************************************)
(* The counters of the events of a stream run (Spec)                       *)
(***************************************************************************)
\* the progress events among the first n events of the run
ProgressUpTo(ev, n) == {k \in 1..n : ev[k].event = "progress"}
\* the last progress event among the first n events; the event of the
\* empty run when there is none
LastProgress(ev, n) ==
    IF ProgressUpTo(ev, n) = {} THEN Ev("progress", 0, 0, 0, 0)
    ELSE ev[CHOOSE k \in ProgressUpTo(ev, n) : \A m \in ProgressUpTo(ev, n) : m <= k]
Ordered(processed, synced, current, total, max_emails) ==
    /\ 0 <= processed /\ processed <= synced /\ synced <= current
    /\ current <= total /\ total <= max_emails

\* C34: in every progress event and in the terminal success event of a
\* stream run, 0 <= processed <= synced <= current <= total <=
\* max_emails_per_sync (the success event carries synced and processed
\* only: current and total are those of the last progress event before
\* it); synced and processed never decrease during a run, and the counts
\* written to the completed session row are those of the success event.
C34_CountersAreOrdered ==
    [][\A r \in Runs :
         run'[r].kind = "stream" =>
           /\ run'[r].synced_count >= run[r].synced_count
           /\ run'[r].processed_count >= run[r].processed_count
           /\ Len(run'[r].events) > Len(run[r].events) =>
                LET ev == run'[r].events
                    e == ev[Len(ev)]
                    p == LastProgress(ev, Len(ev) - 1)
                    row == sync_history'[run'[r].session_id]
                IN /\ e.event = "progress" =>
                        /\ Ordered(e.processed, e.synced, e.current, e.total,
                                   run'[r].max_emails)
                        /\ e.synced >= p.synced /\ e.processed >= p.processed
                        /\ e.total = run'[r].total
                   /\ e.event = "complete" =>
                        /\ Ordered(e.processed, e.synced, p.current, p.total,
                                   run'[r].max_emails)
                        /\ e.synced >= p.synced /\ e.processed >= p.processed
                        /\ row.status = "completed"
                        /\ row.emails_synced = e.synced
                        /\ row.emails_processed = e.processed]_vars

C34_Witness ==
    \E r \in Runs :
        /\ run[r].kind = "stream"
        /\ Completed(r)
        /\ LastEvent(r).synced = 1
        /\ LastEvent(r).processed = 1
        /\ LastProgress(run[r].events, Len(run[r].events)).current = 2
        /\ SessionOf(r).emails_synced = 1

(***************************************************************************)
(* Two runs in flight at the same time (SpecConcurrent)                    *)
(***************************************************************************)
BothEnded == \A r \in Runs : run[r].pc \in EndPCs
SyncedSum == run["r1"].synced_count + run["r2"].synced_count

\* C35: when two sync runs are in flight at the same time against the same
\* store and mailbox, every mailbox identifier is fetched and processed by
\* at most one of them, so the sum of their synced counts equals the number
\* of identifiers newly persisted by the two runs.
C35_NoIdentifierHandledTwice ==
    /\ (RequestedUids("r1") \ SkippedUids("r1"))
           \cap (RequestedUids("r2") \ SkippedUids("r2")) = {}
    /\ SavedUids("r1") \cap SavedUids("r2") = {}
    /\ BothEnded => SyncedSum = Cardinality(DOMAIN emails)

(***************************************************************************)
(* The deprecated operation against the stream operation (SpecCompare)     *)
(***************************************************************************)
\* the stream run has filtered and is suspended at its first progress
\* event, and the run of the deprecated operation, started meanwhile, has
\* filtered too, from the same listing: nothing was persisted in between,
\* and the row of the stream run is in_progress, which is_first_sync does
\* not count
BothFiltered ==
    /\ run["r1"].kind = "stream" /\ run["r1"].pc = "y_found"
    /\ run["r2"].kind = "sync" /\ run["r2"].pc = "s_batch" /\ run["r2"].i = 0
    /\ run["r2"].calls[Len(run["r2"].calls)].op = "email_exists"
    \* both listings succeeded
    /\ run["r1"].calls[2] = run["r2"].calls[2]

\* C36: started from the same store, sync history, mailbox and
\* configuration, without forcing and with the same requested days (here
\* a request not above the window of the profile), the deprecated sync
\* operation and the stream operation select the same profile, use the same
\* window and retain the same identifiers when the cap truncates.
C36_SyncAgreesWithStream ==
    BothFiltered =>
        /\ run["r1"].sync_type = run["r2"].sync_type
        /\ run["r1"].batch_size = run["r2"].batch_size
        /\ run["r1"].days = run["r2"].days =>
              Range(run["r1"].new_uids) = Range(run["r2"].new_uids)

(***************************************************************************)
(* Deduplication after delete, archive and mark read (SpecDedup)           *)
(***************************************************************************)
\* the listing of run r (its fetch_uids call) and the sequence s cut to the
\* members of the set S
ListingOf(rec) == rec.calls[2].arg
Only(s, S) == SelectSeq(s, LAMBDA u : u \in S)
StatusStep == MarkEmailRead \/ ArchiveEmail \/ UnarchiveEmail

C38_ReadLeavesConfiguration ==
    [][GetSettings => config' = config /\ cls'[1].returned = masked(config.data)]_vars

====
